---------------------------- MODULE Spec2Model ----------------------------
(***************************************************************************)
(* File-lifecycle engine of papyru2 (src/src/file_update_handler.rs):      *)
(* the event dispatcher with its single worker thread, the workflow state  *)
(* machine Neutral / New / Edit, and the naming resolver they call.        *)
(*                                                                         *)
(* Text is modelled as a sequence of one-character strings, a path as a    *)
(* record [dir, name], the file system as a function from the paths of the *)
(* existing regular files to their content.                                *)
(***************************************************************************)
EXTENDS Integers, Sequences, FiniteSets, TLC

VARIABLES
    queue,        \* QueueState.queue: FIFO of envelopes [event, response_tx]
    shutdown,     \* QueueState.shutdown
    workerPc,     \* position of worker_loop: "ready", "waiting", "woken", "exec", "exited", "dead"
    workerEnv,    \* Option: the envelope the worker popped and holds
    fs,           \* the document tree: existing file path -> content
    wf,           \* WorkflowStateInner: [state, current_edit_path, last_create_event_raised_at]
    pc,           \* per caller thread: position inside the current call
    call,         \* per caller thread: the operation in progress (or last finished) and its arguments
    chan,         \* per caller thread: the one-shot response channel of the current dispatch
    ret,          \* per caller thread: the value the last finished operation returned
    ncalls,       \* per caller thread: number of dispatch_blocking calls started
    enqLog,       \* history (producers): the envelopes in the order they were pushed
    execLog,      \* history (producers): [envelope, result] in the order the worker answered;
                  \* (naming resolver called directly): [request, result] in call order
    atShutdown,   \* history: the envelopes that were queued when shutdown() set the flag
    last,         \* history (workflow, coordinator): the call that finished last, [op, ret]
    coord,        \* EditorAutoSaveState: [pinned_time, pending_payload, last_delta_trace_secs]
    marks,        \* history (coordinator): the payloads marked since the timer was last armed
    wfLock,       \* the workflow mutex: None, or Some(thread) that holds the guard
    markTimes,    \* history (coordinator): the instants of the mark_user_edit calls in marks
    dropped,      \* history (coordinator): Some(payload) that on_edit_path_changed(None) dropped
                  \* and no mark_user_edit has followed yet
    parked,       \* history (workflow): the state is New since a throttled try_create_from_neutral
    poisoned      \* per mutex: a guard of it was dropped by a panicking thread

vars == <<queue, shutdown, workerPc, workerEnv, fs, wf, pc, call, chan, ret, ncalls,
          enqLog, execLog, atShutdown, last, coord, marks, wfLock, markTimes, dropped, parked, poisoned>>

---------------------------------------------------------------------------
(* Bounds of the model *)

NumProducers == 2      \* threads calling dispatch_blocking directly
NumThreads == 2        \* threads calling the workflow's public operations
MaxDispatch == 2       \* dispatch_blocking calls in one run
MaxTick == 2           \* caller-supplied instants are 0 .. MaxTick minimum intervals
MaxMarks == 2          \* mark_user_edit calls while one timer is armed
MaxNamingOps == 2      \* create_new_text_file / rename_text_file calls made directly
MaxShort == 2          \* length of the short inputs of sanitize_filename_stem
MaxOver == 2           \* the long inputs exceed MAX_FILE_STEM_CHARS by up to this many characters

(* Program constants *)

MAX_FILE_STEM_CHARS == 64
CREATE_EVENT_MIN_INTERVAL == 1000     \* milliseconds
EDITOR_AUTOSAVE_IDLE_DURATION == 6000 \* milliseconds

\* Option<T>: None is the empty tuple, Some(x) the one-element tuple
None == <<>>
Some(x) == <<x>>
Unwrap(o) == o[1]

---------------------------------------------------------------------------
(* Text helpers *)

DigitChars == <<"0", "1", "2", "3", "4", "5", "6", "7", "8", "9">>

Pow10(n) == IF n = 0 THEN 1 ELSE IF n = 1 THEN 10 ELSE IF n = 2 THEN 100 ELSE 1000

\* {:0w} of chrono's %Y %m %d %H %M %S %3f: n in exactly w decimal digits
Pad(n, w) == [i \in 1..w |-> DigitChars[((n \div Pow10(w - i)) % 10) + 1]]

RECURSIVE Dec(_)
\* format!("{suffix}") of a usize
Dec(n) == IF n < 10 THEN <<DigitChars[n + 1]>> ELSE Dec(n \div 10) \o <<DigitChars[(n % 10) + 1]>>

Take(s, n) == IF Len(s) <= n THEN s ELSE SubSeq(s, 1, n)

ControlChars == {"\t", "\n"}
ReservedChars == {"<", ">", ":", "\"", "/", "\\", "|", "?", "*"}

invalid_filename_char(ch) == ch \in ReservedChars \/ ch \in ControlChars

\* "W" stands for a code point of three UTF-8 bytes
WideChars == {"W"}
Utf8Len(ch) == IF ch \in WideChars THEN 3 ELSE 1

RECURSIVE TakeBytes(_, _)
TakeBytes(s, n) ==
    IF s = <<>> \/ Utf8Len(Head(s)) > n THEN <<>>
    ELSE <<Head(s)>> \o TakeBytes(Tail(s), n - Utf8Len(Head(s)))

\* faulty variant: the stem is cut after MAX_FILE_STEM_CHARS bytes
sanitize_by_bytes(raw) ==
    TakeBytes([i \in 1..Len(raw) |-> IF invalid_filename_char(raw[i]) THEN "_" ELSE raw[i]],
              MAX_FILE_STEM_CHARS)

sanitize_filename_stem(raw) ==
    LET replaced == [i \in 1..Len(raw) |-> IF invalid_filename_char(raw[i]) THEN "_" ELSE raw[i]]
    IN  Take(replaced, MAX_FILE_STEM_CHARS)

notitle_stem(now) ==
    <<"n", "o", "t", "i", "t", "l", "e", "-">>
      \o Pad(now.year, 4) \o Pad(now.month, 2) \o Pad(now.day, 2)
      \o Pad(now.hour, 2) \o Pad(now.minute, 2) \o Pad(now.second, 2) \o Pad(now.milli, 3)

\* faulty variant: an empty title is sanitized like any other
stem_without_fallback(value, now) == sanitize_filename_stem(value)

stem_from_singleline_value(value, now) ==
    IF value = <<>> THEN notitle_stem(now)
    ELSE LET sanitized == sanitize_filename_stem(value)
         IN  IF sanitized = <<>> THEN notitle_stem(now) ELSE sanitized

daily_directory(user_document_dir, now) ==
    user_document_dir \o <<Pad(now.year, 4), Pad(now.month, 2), Pad(now.day, 2)>>

TxtExt == <<".", "t", "x", "t">>

Join(dir, file_name) == [dir |-> dir, name |-> file_name]

Exists(files, path) == path \in DOMAIN files

\* format!("{stem}.txt") / format!("{stem}_{suffix}.txt")
TxtName(stem, suffix) ==
    IF suffix = 1 THEN stem \o TxtExt ELSE stem \o <<"_">> \o Dec(suffix) \o TxtExt

RECURSIVE ResolveFrom(_, _, _, _, _)
ResolveFrom(files, dir, stem, exclude_path, suffix) ==
    LET candidate == Join(dir, TxtName(stem, suffix))
    IN  IF exclude_path = Some(candidate) THEN candidate
        ELSE IF ~Exists(files, candidate) THEN candidate
        ELSE ResolveFrom(files, dir, stem, exclude_path, suffix + 1)

\* faulty variant: the first candidate is returned without looking at the directory
resolve_first_candidate(files, dir, stem, exclude_path) ==
    Join(dir, TxtName(stem, 1))

resolve_unique_txt_path(files, dir, stem, exclude_path) ==
    ResolveFrom(files, dir, stem, exclude_path, 1)

Ok(kind, path) == [ok |-> TRUE, kind |-> kind, path |-> path]
Err(kind) == [ok |-> FALSE, err |-> kind]

\* faulty variant: the path is returned but no file is created
create_without_file(files, request) ==
    [result |-> Ok("Created", Join(daily_directory(request.user_document_dir, request.now),
                                   TxtName(stem_from_singleline_value(request.singleline_value, request.now), 1))),
     files |-> files]

\* faulty variant: <stem>.txt is opened with create and truncate
create_overwrites(files, request) ==
    LET path == Join(daily_directory(request.user_document_dir, request.now),
                     TxtName(stem_from_singleline_value(request.singleline_value, request.now), 1))
    IN  [result |-> Ok("Created", path),
         files |-> [p \in DOMAIN files \cup {path} |-> IF p = path THEN <<>> ELSE files[p]]]

\* result and the file system after create_new_text_file(request)
create_new_text_file(files, request) ==
    LET dir == daily_directory(request.user_document_dir, request.now)
        stem == stem_from_singleline_value(request.singleline_value, request.now)
        path == resolve_unique_txt_path(files, dir, stem, None)
    IN  IF Exists(files, path)
        THEN [result |-> Err("AlreadyExists"), files |-> files]
        ELSE [result |-> Ok("Created", path),
              files |-> [p \in DOMAIN files \cup {path} |-> IF p = path THEN <<>> ELSE files[p]]]

\* faulty variant: the target is resolved without excluding the current path
rename_without_exclude(files, request) ==
    IF ~Exists(files, request.current_path)
    THEN [result |-> Err("NotFound"), files |-> files]
    ELSE LET stem == stem_from_singleline_value(request.singleline_value, request.now)
             target == resolve_unique_txt_path(files, request.current_path.dir, stem, None)
         IN  [result |-> Ok("Renamed", target),
              files |-> [p \in (DOMAIN files \ {request.current_path}) \cup {target} |->
                            IF p = target THEN files[request.current_path] ELSE files[p]]]

\* faulty variant: the file is moved to <stem>.txt whatever is there
rename_overwrites(files, request) ==
    IF ~Exists(files, request.current_path)
    THEN [result |-> Err("NotFound"), files |-> files]
    ELSE LET stem == stem_from_singleline_value(request.singleline_value, request.now)
             target == Join(request.current_path.dir, TxtName(stem, 1))
         IN  [result |-> Ok("Renamed", target),
              files |-> [p \in (DOMAIN files \ {request.current_path}) \cup {target} |->
                            IF p = target THEN files[request.current_path] ELSE files[p]]]

rename_text_file(files, request) ==
    IF ~Exists(files, request.current_path)
    THEN [result |-> Err("NotFound"), files |-> files]
    ELSE LET parent == request.current_path.dir
             stem == stem_from_singleline_value(request.singleline_value, request.now)
             target == resolve_unique_txt_path(files, parent, stem, Some(request.current_path))
         IN  IF target = request.current_path
             THEN [result |-> Ok("Renamed", target), files |-> files]
             ELSE [result |-> Ok("Renamed", target),
                   files |-> [p \in (DOMAIN files \ {request.current_path}) \cup {target} |->
                                 IF p = target THEN files[request.current_path] ELSE files[p]]]

\* serde_json, string escaping: quote, backslash and the control characters
json_escape_char(ch) ==
    CASE ch = "\"" -> <<"\\", "\"">>
      [] ch = "\\" -> <<"\\", "\\">>
      [] ch = "\n" -> <<"\\", "n">>
      [] ch = "\t" -> <<"\\", "t">>
      [] OTHER -> <<ch>>

RECURSIVE json_escape(_)
json_escape(s) == IF s = <<>> THEN <<>> ELSE json_escape_char(Head(s)) \o json_escape(Tail(s))

json_string(s) == <<"\"">> \o json_escape(s) \o <<"\"">>

json_unescape_char(ch) ==
    CASE ch = "n" -> "\n"
      [] ch = "t" -> "\t"
      [] OTHER -> ch

RECURSIVE ReadString(_, _, _)
\* the string literal whose first character after the opening quote is b[i]:
\* its value and the index after the closing quote
ReadString(b, i, acc) ==
    IF i > Len(b) THEN [ok |-> FALSE]
    ELSE IF b[i] = "\"" THEN [ok |-> TRUE, value |-> acc, next |-> i + 1]
    ELSE IF b[i] = "\\"
         THEN IF i + 1 > Len(b) THEN [ok |-> FALSE]
              ELSE ReadString(b, i + 2, Append(acc, json_unescape_char(b[i + 1])))
         ELSE ReadString(b, i + 1, Append(acc, b[i]))

RECURSIVE JoinComponents(_)
JoinComponents(components) ==
    IF components = <<>> THEN <<>>
    ELSE Head(components) \o <<"/">> \o JoinComponents(Tail(components))

\* PathBuf as serde writes it: the components separated by '/'
path_to_str(path) == JoinComponents(path.dir) \o path.name

RECURSIVE SplitComponents(_, _, _)
SplitComponents(text, dir, name) ==
    IF text = <<>> THEN [dir |-> dir, name |-> name]
    ELSE IF Head(text) = "/" THEN SplitComponents(Tail(text), Append(dir, name), <<>>)
    ELSE SplitComponents(Tail(text), dir, Append(name, Head(text)))

\* PathBuf::from(String): the parent components and the file name
str_to_path(text) == SplitComponents(text, <<>>, <<>>)

KeyCurrentPath == <<"c", "u", "r", "r", "e", "n", "t", "_", "p", "a", "t", "h">>
KeyEditorText == <<"e", "d", "i", "t", "o", "r", "_", "t", "e", "x", "t">>

\* serde_json::to_vec(payload): {"current_path":"...","editor_text":"..."}
to_vec(payload) ==
    <<"{">> \o json_string(KeyCurrentPath) \o <<":">> \o json_string(path_to_str(payload.current_path))
      \o <<",">> \o json_string(KeyEditorText) \o <<":">> \o json_string(payload.editor_text)
      \o <<"}">>

Expect(b, i, ch) == i <= Len(b) /\ b[i] = ch

\* serde_json::from_slice::<EditorAutoSavePayload>(serialized)
from_slice(b) ==
    IF ~(Expect(b, 1, "{") /\ Expect(b, 2, "\"")) THEN Err("InvalidData")
    ELSE LET k1 == ReadString(b, 3, <<>>)
         IN  IF \/ ~k1.ok
                \/ k1.value # KeyCurrentPath
                \/ ~Expect(b, k1.next, ":")
                \/ ~Expect(b, k1.next + 1, "\"")
             THEN Err("InvalidData")
             ELSE LET v1 == ReadString(b, k1.next + 2, <<>>)
                  IN  IF \/ ~v1.ok
                         \/ ~Expect(b, v1.next, ",")
                         \/ ~Expect(b, v1.next + 1, "\"")
                      THEN Err("InvalidData")
                      ELSE LET k2 == ReadString(b, v1.next + 2, <<>>)
                           IN  IF \/ ~k2.ok
                                  \/ k2.value # KeyEditorText
                                  \/ ~Expect(b, k2.next, ":")
                                  \/ ~Expect(b, k2.next + 1, "\"")
                               THEN Err("InvalidData")
                               ELSE LET v2 == ReadString(b, k2.next + 2, <<>>)
                                    IN  IF \/ ~v2.ok
                                           \/ ~Expect(b, v2.next, "}")
                                           \/ v2.next # Len(b)
                                        THEN Err("InvalidData")
                                        ELSE [ok |-> TRUE,
                                              value |-> [current_path |-> str_to_path(v1.value),
                                                         editor_text |-> v2.value]]

\* editor_temp_path_for_atomic_write: <name>.tmp beside the target
editor_temp_path_for_atomic_write(path) ==
    Join(path.dir, path.name \o <<".", "t", "m", "p">>)

\* write_editor_text_atomic when every file-system call succeeds: the stale temp
\* file is removed, the temp file is written and synced, and it replaces the target
write_editor_text_atomic(files, path, bytes) ==
    LET temp_path == editor_temp_path_for_atomic_write(path)
        kept == DOMAIN files \ {temp_path}
    IN  [result |-> Ok("AutoSaved", path),
         files |-> [p \in kept \cup {path} |-> IF p = path THEN bytes ELSE files[p]]]

\* faulty variant: the payload is written without the serde round trip
save_without_round_trip(files, payload) ==
    write_editor_text_atomic(files, payload.current_path, payload.editor_text)

save_editor_text_payload_atomic(files, payload) ==
    LET decoded == from_slice(to_vec(payload))
    IN  IF ~decoded.ok
        THEN [result |-> Err("InvalidData"), files |-> files]
        ELSE write_editor_text_atomic(files, decoded.value.current_path, decoded.value.editor_text)

process_event(files, event) ==
    CASE event.kind = "Create" -> create_new_text_file(files, event.request)
      [] event.kind = "Rename" -> rename_text_file(files, event.request)
      [] event.kind = "AutoSave" -> save_editor_text_payload_atomic(files, event.payload)

CreateEvent(dir, value, now) ==
    [kind |-> "Create", request |-> [user_document_dir |-> dir, singleline_value |-> value, now |-> now]]
RenameEvent(path, value, now) ==
    [kind |-> "Rename", request |-> [current_path |-> path, singleline_value |-> value, now |-> now]]
AutoSaveEvent(payload) ==
    [kind |-> "AutoSave", payload |-> payload]

---------------------------------------------------------------------------
(* Inputs *)

Root == << <<"D">> >>

\* fixed_now() of the tests: 2026-02-28T12:34:56.789
FixedNow == [year |-> 2026, month |-> 2, day |-> 28, hour |-> 12, minute |-> 34,
             second |-> 56, milli |-> 789]

Producers == 1..NumProducers
Threads == 1..NumThreads

CommonTitle == <<"a">>
\* format!("p{ix}") of the multi-producer test
OwnTitle(t) == <<"p">> \o Dec(t)
EditorTexts == {<<"x">>}

\* the path a create with the common title gets in an empty daily directory
CommonPath == Join(daily_directory(Root, FixedNow), CommonTitle \o TxtExt)

ProducerEvents(t) ==
    {CreateEvent(Root, v, FixedNow) : v \in {CommonTitle, OwnTitle(t)}}
      \cup {RenameEvent(CommonPath, OwnTitle(t), FixedNow)}

---------------------------------------------------------------------------
(* Event dispatcher: dispatch_blocking, shutdown, worker_loop *)

\* the fresh one-shot channel of caller t's current dispatch_blocking call
ChannelOf(t) == <<t, ncalls[t]>>

Envelope(event, response_tx) == [event |-> event, response_tx |-> response_tx]

push_back(q, envelope) == Append(q, envelope)

\* faulty variant: the newest envelope is taken (pop_back)
pop_newest(q) == [envelope |-> Some(q[Len(q)]), rest |-> SubSeq(q, 1, Len(q) - 1)]

\* faulty variant: the front envelope is read but stays queued (front() for pop_front())
peek_front(q) == [envelope |-> Some(Head(q)), rest |-> q]

pop_front(q) == [envelope |-> Some(Head(q)), rest |-> Tail(q)]

\* Condvar::notify_one / notify_all with the worker as the only possible waiter
\* faulty variant: the producer forgets to wake the worker
notify_nobody(wpc) == wpc

notify_one(wpc) == IF wpc = "waiting" THEN "woken" ELSE wpc
notify_all(wpc) == IF wpc = "waiting" THEN "woken" ELSE wpc

\* the Sender of caller t's channel lives in its envelope, queued or held by the worker
SenderAlive(t) ==
    \/ \E i \in 1..Len(queue) : queue[i].response_tx = ChannelOf(t)
    \/ (workerEnv # None /\ Unwrap(workerEnv).response_tx = ChannelOf(t))

\* the Receiver of a channel lives while its caller is inside that dispatch_blocking call
ReceiverAlive(tx) == ncalls[tx[1]] = tx[2] /\ pc[tx[1]] = "recv"

\* dispatch_blocking, first half: lock, push_back, notify_one, unlock
\* the mutexes of the engine: the dispatcher's QueueState and the workflow's
\* WorkflowStateInner
Mutexes == {"queue", "inner"}

NoPoison == [m \in Mutexes |-> FALSE]

\* variant: the poisoned lock is recovered with into_inner
lock_recovered(poison) == [ok |-> TRUE]

\* lock.lock().map_err(..)? in dispatch_blocking: a poisoned queue lock is
\* reported as io::Error::other
lock_on_enqueue(poison) == IF poison.queue THEN Err("Other") ELSE [ok |-> TRUE]

Enqueue(envelope) ==
    /\ queue' = push_back(queue, envelope)
    /\ workerPc' = notify_one(workerPc)

\* dispatch_blocking, second half: response_rx.recv() has a message
Received(t) == pc[t] = "recv" /\ chan[t] # None

\* the response the caller t has received
ResponseOf(t) == Unwrap(chan[t]).result

\* FileWorkflowEventDispatcher::shutdown
Shutdown ==
    /\ ~shutdown
    /\ shutdown' = TRUE
    /\ workerPc' = notify_all(workerPc)
    /\ atShutdown' = queue
    /\ UNCHANGED <<queue, workerEnv, fs, wf, pc, call, chan, ret, ncalls, enqLog, execLog, last, coord, marks, wfLock, markTimes, dropped, parked, poisoned>>

\* worker_loop: if state.shutdown && state.queue.is_empty() { break; }
\* faulty variant: the worker leaves as soon as the flag is set
break_on_flag(q, sd) == sd

ShouldBreak(q, sd) == sd /\ q = <<>>

\* worker_loop under the queue lock: the while condition, the break, the pop
WorkerCheck ==
    /\ workerPc \in {"ready", "woken"}
    /\ IF queue = <<>> /\ ~shutdown
       THEN /\ workerPc' = "waiting"
            /\ UNCHANGED <<queue, workerEnv>>
       ELSE IF ShouldBreak(queue, shutdown)
       THEN /\ workerPc' = "exited"
            /\ UNCHANGED <<queue, workerEnv>>
       ELSE /\ workerPc' = "exec"
            /\ workerEnv' = pop_front(queue).envelope
            /\ queue' = pop_front(queue).rest
    /\ UNCHANGED <<shutdown, fs, wf, pc, call, chan, ret, ncalls, enqLog, execLog, atShutdown, last, coord, marks, wfLock, markTimes, dropped, parked, poisoned>>

\* Condvar::wait may return without a notification
WorkerSpuriousWake ==
    /\ workerPc = "waiting"
    /\ workerPc' = "woken"
    /\ UNCHANGED <<queue, shutdown, workerEnv, fs, wf, pc, call, chan, ret, ncalls, enqLog, execLog, atShutdown, last, coord, marks, wfLock, markTimes, dropped, parked, poisoned>>

\* worker_loop outside the lock: process_event, then send on the envelope's channel
WorkerExecute ==
    /\ workerPc = "exec"
    /\ workerEnv # None
    /\ LET envelope == Unwrap(workerEnv)
           done == process_event(fs, envelope.event)
           tx == envelope.response_tx
       IN  /\ fs' = done.files
           /\ chan' = IF ReceiverAlive(tx)
                      THEN [chan EXCEPT ![tx[1]] = Some([result |-> done.result, of |-> tx])]
                      ELSE chan
           /\ execLog' = Append(execLog, [envelope |-> envelope, result |-> done.result])
    /\ workerEnv' = None
    /\ workerPc' = "ready"
    /\ UNCHANGED <<queue, shutdown, wf, pc, call, ret, ncalls, enqLog, atShutdown, last, coord, marks, wfLock, markTimes, dropped, parked, poisoned>>

RECURSIVE SumCalls(_)
SumCalls(S) == IF S = {} THEN 0
               ELSE LET t == CHOOSE x \in S : TRUE IN ncalls[t] + SumCalls(S \ {t})
\* dispatch_blocking calls started so far, by all threads
Started == SumCalls(DOMAIN ncalls)

\* a producer thread calls dispatch_blocking(event): a fresh channel, the
\* envelope pushed under the queue lock, then the thread blocks in recv()
ProducerDispatch(t) ==
    /\ pc[t] = "idle"
    /\ Started < MaxDispatch
    /\ \E e \in ProducerEvents(t) :
          /\ call' = [call EXCEPT ![t] = [op |-> "dispatch_blocking", event |-> e]]
          /\ IF lock_on_enqueue(poisoned).ok
             THEN /\ Enqueue(Envelope(e, <<t, ncalls[t] + 1>>))
                  /\ enqLog' = Append(enqLog, Envelope(e, <<t, ncalls[t] + 1>>))
                  /\ chan' = [chan EXCEPT ![t] = None]
             ELSE /\ chan' = [chan EXCEPT ![t] = Some([result |-> lock_on_enqueue(poisoned),
                                                        of |-> <<t, ncalls[t] + 1>>])]
                  /\ UNCHANGED <<queue, workerPc, enqLog>>
    /\ ncalls' = [ncalls EXCEPT ![t] = @ + 1]
    /\ pc' = [pc EXCEPT ![t] = "recv"]
    /\ UNCHANGED <<shutdown, workerEnv, fs, wf, ret, execLog, atShutdown, last, coord, marks, wfLock, markTimes, dropped, parked, poisoned>>

ProducerReturn(t) ==
    /\ Received(t)
    /\ call[t].op = "dispatch_blocking"
    /\ ret' = [ret EXCEPT ![t] = Unwrap(chan[t]).result]
    /\ pc' = [pc EXCEPT ![t] = "idle"]
    /\ chan' = [chan EXCEPT ![t] = None]
    /\ UNCHANGED <<queue, shutdown, workerPc, workerEnv, fs, wf, call, ncalls, enqLog, execLog, atShutdown, last, coord, marks, wfLock, markTimes, dropped, parked, poisoned>>

NoCall == [op |-> "none"]
NoReturn == [ok |-> TRUE, kind |-> "none"]

WorkflowInit ==
    [state |-> "Neutral", current_edit_path |-> None, last_create_event_raised_at |-> None]

\* EditorAutoSaveState::default()
CoordInit ==
    [pinned_time |-> None, pending_payload |-> None, last_delta_trace_secs |-> None]

InitCommon ==
    /\ queue = <<>>
    /\ shutdown = FALSE
    /\ workerPc = "ready"
    /\ workerEnv = None
    /\ fs = <<>>
    /\ wf = WorkflowInit
    /\ enqLog = <<>>
    /\ execLog = <<>>
    /\ atShutdown = <<>>
    /\ last = NoCall
    /\ coord = CoordInit
    /\ marks = <<>>
    /\ wfLock = None
    /\ markTimes = <<>>
    /\ dropped = None
    /\ parked = FALSE
    /\ poisoned = NoPoison

InitCallers(callers) ==
    /\ pc = [t \in callers |-> "idle"]
    /\ call = [t \in callers |-> NoCall]
    /\ chan = [t \in callers |-> None]
    /\ ret = [t \in callers |-> NoReturn]
    /\ ncalls = [t \in callers |-> 0]

Init == InitCommon /\ InitCallers(Producers)

Next ==
    \/ \E t \in Producers : ProducerDispatch(t)
    \/ \E t \in Producers : ProducerReturn(t)
    \/ WorkerCheck
    \/ WorkerSpuriousWake
    \/ WorkerExecute
    \/ Shutdown

Spec == Init /\ [][Next]_vars

\* The worker thread and the blocked callers are scheduled fairly; a spurious
\* wake-up and a shutdown are never owed.
Fairness ==
    /\ WF_vars(WorkerCheck \/ WorkerExecute)
    /\ \A t \in Producers : WF_vars(ProducerReturn(t))

FairSpec == Spec /\ Fairness

---------------------------------------------------------------------------
(* The worker thread dies while it executes a command *)

\* a panic inside process_event unwinds the worker: the envelope it holds is dropped
WorkerPanic ==
    /\ workerPc = "exec"
    /\ workerPc' = "dead"
    /\ workerEnv' = None
    /\ UNCHANGED <<queue, shutdown, fs, wf, pc, call, chan, ret, ncalls, enqLog, execLog, atShutdown, last, coord, marks, wfLock, markTimes, dropped, parked, poisoned>>

\* dispatch_blocking: recv() fails because the Sender was dropped without a message
ProducerDisconnected(t) ==
    /\ pc[t] = "recv"
    /\ chan[t] = None
    /\ ~SenderAlive(t)
    /\ call[t].op = "dispatch_blocking"
    /\ ret' = [ret EXCEPT ![t] = Err("BrokenPipe")]
    /\ pc' = [pc EXCEPT ![t] = "idle"]
    /\ UNCHANGED <<queue, shutdown, workerPc, workerEnv, fs, wf, call, chan, ncalls, enqLog, execLog, atShutdown, last, coord, marks, wfLock, markTimes, dropped, parked, poisoned>>

CrashNext ==
    \/ Next
    \/ WorkerPanic
    \/ \E t \in Producers : ProducerDisconnected(t)

CrashSpec == Init /\ [][CrashNext]_vars

---------------------------------------------------------------------------
(* Workflow state machine: SinglelineCreateFileWorkflow *)

\* the caller-supplied instants, in milliseconds
Instants == {i * CREATE_EVENT_MIN_INTERVAL : i \in 0..MaxTick}
CreateTitles == {CommonTitle}
RenameTitles == {CommonTitle, <<"b">>}
\* a note that is in the document tree before the run starts
ExistingPath == Join(daily_directory(Root, FixedNow), <<"b">> \o TxtExt)
OpenPaths == {ExistingPath}

\* what a workflow method returns: Ok(value) or the dispatcher's error
OkVal(v) == [ok |-> TRUE, value |-> v]

\* Instant::checked_duration_since
checked_duration_since(now, earlier) == IF now >= earlier THEN Some(now - earlier) ELSE None

\* faulty variant: ready as soon as the interval has elapsed
ready_from_interval(last_raised_at, now_instant) ==
    IF last_raised_at = None THEN TRUE
    ELSE IF now_instant < Unwrap(last_raised_at) THEN FALSE
    ELSE now_instant - Unwrap(last_raised_at) >= CREATE_EVENT_MIN_INTERVAL

\* try_create_from_neutral: the throttle on last_create_event_raised_at
CreateReady(last_raised_at, now_instant) ==
    IF last_raised_at = None THEN TRUE
    ELSE LET elapsed == checked_duration_since(now_instant, Unwrap(last_raised_at))
         IN  IF elapsed = None THEN FALSE ELSE Unwrap(elapsed) > CREATE_EVENT_MIN_INTERVAL

\* faulty variant: the path is kept
reset_keeps_path(w) == [w EXCEPT !.state = "Neutral"]

\* reset_startup_to_neutral under the lock
ResetToNeutral(w) == [w EXCEPT !.state = "Neutral", !.current_edit_path = None]

\* set_edit_from_open_file under the lock
ForceEdit(w, path) == [w EXCEPT !.state = "Edit", !.current_edit_path = Some(path)]

\* faulty variant: every state but Neutral may be left
leave_unless_neutral(w) == w.state # "Neutral"

\* transition_edit_to_neutral: the state test
InEdit(w) == w.state = "Edit"

\* transition_edit_to_neutral under the lock, from Edit
EditToNeutral(w) == [w EXCEPT !.state = "Neutral", !.current_edit_path = None]

\* faulty variant: Edit is entered before the path is known
created_without_path(w, path) == [w EXCEPT !.state = "Edit"]

\* try_create_from_neutral under the second lock, on Created { path }
EnterEditCreated(w, path) == [w EXCEPT !.state = "Edit", !.current_edit_path = Some(path)]

\* try_rename_in_edit under the second lock, on Renamed { path }
SetRenamedPath(w, path) == [w EXCEPT !.current_edit_path = Some(path)]

\* faulty variant: the state is left Neutral while the create is dispatched
stay_neutral(w) == w

\* try_create_from_neutral under the first lock: state.state = New
EnterNew(w) == [w EXCEPT !.state = "New"]

\* faulty variant: the payload's path is not compared
autosave_in_any_edit(w, payload) == w.state = "Edit"

\* try_autosave_in_edit under the lock: Edit, and the current path is the payload's
AutosaveApplies(w, payload) ==
    w.state = "Edit" /\ w.current_edit_path = Some(payload.current_path)

\* the method returns to its caller
Returns(t, op, result) ==
    last' = [op |-> op, ret |-> result]

\* the method builds its event and goes on to dispatch_blocking
Dispatches(t, op, event) ==
    /\ Started < MaxDispatch
    /\ call' = [call EXCEPT ![t] = [op |-> op, event |-> event]]
    /\ ncalls' = [ncalls EXCEPT ![t] = @ + 1]
    /\ chan' = [chan EXCEPT ![t] = None]
    /\ pc' = [pc EXCEPT ![t] = "enqueue"]

\* history: the workflow stays parked while it stays in New
StaysParked == parked' = (parked /\ wf'.state = "New")

ResetStartupToNeutral(t) ==
    /\ pc[t] = "idle"
    /\ wf' = ResetToNeutral(wf)
    /\ Returns(t, "reset_startup_to_neutral", OkVal(<<>>))
    /\ StaysParked
    /\ UNCHANGED <<queue, shutdown, workerPc, workerEnv, fs, pc, call, chan, ret, ncalls, enqLog, execLog, atShutdown, coord, marks, wfLock, markTimes, dropped, poisoned>>

SetEditFromOpenFile(t, path) ==
    /\ pc[t] = "idle"
    /\ wf' = ForceEdit(wf, path)
    /\ Returns(t, "set_edit_from_open_file", OkVal(<<>>))
    /\ StaysParked
    /\ UNCHANGED <<queue, shutdown, workerPc, workerEnv, fs, pc, call, chan, ret, ncalls, enqLog, execLog, atShutdown, coord, marks, wfLock, markTimes, dropped, poisoned>>

TransitionEditToNeutral(t) ==
    /\ pc[t] = "idle"
    /\ IF ~InEdit(wf)
       THEN /\ Returns(t, "transition_edit_to_neutral", OkVal(FALSE))
            /\ UNCHANGED wf
       ELSE /\ wf' = EditToNeutral(wf)
            /\ Returns(t, "transition_edit_to_neutral", OkVal(TRUE))
    /\ StaysParked
    /\ UNCHANGED <<queue, shutdown, workerPc, workerEnv, fs, pc, call, chan, ret, ncalls, enqLog, execLog, atShutdown, coord, marks, wfLock, markTimes, dropped, poisoned>>

\* try_create_from_neutral up to dispatch_blocking
TryCreateBegin(t, singleline_value, now_instant) ==
    /\ pc[t] = "idle"
    /\ IF wf.state # "Neutral"
       THEN /\ Returns(t, "try_create_from_neutral", OkVal(None))
            /\ UNCHANGED <<wf, pc, call, chan, ncalls>>
       ELSE IF ~CreateReady(wf.last_create_event_raised_at, now_instant)
       THEN /\ wf' = EnterNew(wf)
            /\ Returns(t, "try_create_from_neutral", OkVal(None))
            /\ UNCHANGED <<pc, call, chan, ncalls>>
       ELSE /\ wf' = [EnterNew(wf) EXCEPT !.last_create_event_raised_at = Some(now_instant)]
            /\ Dispatches(t, "try_create_from_neutral",
                          CreateEvent(Root, singleline_value, FixedNow))
            /\ UNCHANGED last
    /\ parked' = \/ /\ wf.state = "Neutral"
                     /\ ~CreateReady(wf.last_create_event_raised_at, now_instant)
                  \/ (parked /\ wf'.state = "New")
    /\ UNCHANGED <<queue, shutdown, workerPc, workerEnv, fs, ret, enqLog, execLog, atShutdown, coord, marks, wfLock, markTimes, dropped, poisoned>>

\* try_rename_in_edit up to dispatch_blocking
TryRenameBegin(t, singleline_value) ==
    /\ pc[t] = "idle"
    /\ IF wf.state # "Edit" \/ wf.current_edit_path = None
       THEN /\ Returns(t, "try_rename_in_edit", OkVal(None))
            /\ UNCHANGED <<pc, call, chan, ncalls>>
       ELSE /\ Dispatches(t, "try_rename_in_edit",
                          RenameEvent(Unwrap(wf.current_edit_path), singleline_value, FixedNow))
            /\ UNCHANGED last
    /\ UNCHANGED <<queue, shutdown, workerPc, workerEnv, fs, wf, ret, enqLog, execLog, atShutdown, coord, marks, wfLock, markTimes, dropped, parked, poisoned>>

\* try_autosave_in_edit up to dispatch_blocking
TryAutosaveBegin(t, payload) ==
    /\ pc[t] = "idle"
    /\ IF ~AutosaveApplies(wf, payload)
       THEN /\ Returns(t, "try_autosave_in_edit", OkVal(FALSE))
            /\ UNCHANGED <<pc, call, chan, ncalls>>
       ELSE /\ Dispatches(t, "try_autosave_in_edit", AutoSaveEvent(payload))
            /\ UNCHANGED last
    /\ UNCHANGED <<queue, shutdown, workerPc, workerEnv, fs, wf, ret, enqLog, execLog, atShutdown, coord, marks, wfLock, markTimes, dropped, parked, poisoned>>

\* the thread leaves dispatch_blocking and the method: channel and request are dropped
Finished(t) ==
    /\ pc' = [pc EXCEPT ![t] = "idle"]
    /\ chan' = [chan EXCEPT ![t] = None]
    /\ call' = [call EXCEPT ![t] = NoCall]

\* dispatch_blocking, first half, of a workflow method
\* dispatch_blocking up to recv: the envelope is pushed, or the error of the
\* lock is what the call has to return, as an error received would be
DispatchEnqueue(t) ==
    /\ pc[t] = "enqueue"
    /\ IF lock_on_enqueue(poisoned).ok
       THEN /\ Enqueue(Envelope(call[t].event, ChannelOf(t)))
            /\ UNCHANGED chan
       ELSE /\ chan' = [chan EXCEPT ![t] = Some([result |-> lock_on_enqueue(poisoned),
                                                  of |-> ChannelOf(t)])]
            /\ UNCHANGED <<queue, workerPc>>
    /\ pc' = [pc EXCEPT ![t] = "recv"]
    /\ UNCHANGED <<shutdown, workerEnv, fs, wf, call, ret, ncalls, enqLog, execLog, atShutdown, last, coord, marks, wfLock, markTimes, dropped, parked, poisoned>>

\* try_create_from_neutral from the response on
TryCreateComplete(t) ==
    /\ Received(t)
    /\ call[t].op = "try_create_from_neutral"
    /\ LET result == Unwrap(chan[t]).result
       IN  IF ~result.ok
           THEN /\ Returns(t, "try_create_from_neutral", result)
                /\ UNCHANGED wf
           ELSE IF result.kind = "Created"
           THEN /\ wf' = EnterEditCreated(wf, result.path)
                /\ Returns(t, "try_create_from_neutral", OkVal(Some(result.path)))
           ELSE /\ Returns(t, "try_create_from_neutral", OkVal(None))
                /\ UNCHANGED wf
    /\ Finished(t)
    /\ StaysParked
    /\ UNCHANGED <<queue, shutdown, workerPc, workerEnv, fs, ret, ncalls, enqLog, execLog, atShutdown, coord, marks, wfLock, markTimes, dropped, poisoned>>

\* try_rename_in_edit from the response on
TryRenameComplete(t) ==
    /\ Received(t)
    /\ call[t].op = "try_rename_in_edit"
    /\ LET result == Unwrap(chan[t]).result
       IN  IF ~result.ok
           THEN /\ Returns(t, "try_rename_in_edit", result)
                /\ UNCHANGED wf
           ELSE IF result.kind = "Renamed"
           THEN /\ wf' = SetRenamedPath(wf, result.path)
                /\ Returns(t, "try_rename_in_edit", OkVal(Some(result.path)))
           ELSE /\ Returns(t, "try_rename_in_edit", OkVal(None))
                /\ UNCHANGED wf
    /\ Finished(t)
    /\ StaysParked
    /\ UNCHANGED <<queue, shutdown, workerPc, workerEnv, fs, ret, ncalls, enqLog, execLog, atShutdown, coord, marks, wfLock, markTimes, dropped, poisoned>>

\* try_autosave_in_edit: the ? after dispatch_blocking and the match on the result
AutosaveReturn(result) ==
    IF ~result.ok THEN result ELSE OkVal(result.kind = "AutoSaved")

\* try_autosave_in_edit from the response on
TryAutosaveComplete(t) ==
    /\ Received(t)
    /\ call[t].op = "try_autosave_in_edit"
    /\ Returns(t, "try_autosave_in_edit", AutosaveReturn(Unwrap(chan[t]).result))
    /\ Finished(t)
    /\ UNCHANGED <<queue, shutdown, workerPc, workerEnv, fs, wf, ret, ncalls, enqLog, execLog, atShutdown, coord, marks, wfLock, markTimes, dropped, parked, poisoned>>

\* one iteration of worker_loop with a non-empty queue: pop_front under the lock,
\* process_event, send
WorkerServe ==
    /\ workerPc = "ready"
    /\ queue # <<>>
    /\ LET envelope == Unwrap(pop_front(queue).envelope)
           done == process_event(fs, envelope.event)
           tx == envelope.response_tx
       IN  /\ queue' = pop_front(queue).rest
           /\ fs' = done.files
           /\ chan' = IF ReceiverAlive(tx)
                      THEN [chan EXCEPT ![tx[1]] = Some([result |-> done.result, of |-> tx])]
                      ELSE chan
    /\ UNCHANGED <<shutdown, workerPc, workerEnv, wf, pc, call, ret, ncalls, enqLog, execLog, atShutdown, last, coord, marks, wfLock, markTimes, dropped, parked, poisoned>>

AutoSavePayloads == {[current_path |-> p, editor_text |-> x] : p \in OpenPaths, x \in EditorTexts}

WorkflowSpecInit ==
    /\ queue = <<>>
    /\ shutdown = FALSE
    /\ workerPc = "ready"
    /\ workerEnv = None
    /\ fs = [p \in {ExistingPath} |-> <<>>]
    /\ wf = WorkflowInit
    /\ enqLog = <<>>
    /\ execLog = <<>>
    /\ atShutdown = <<>>
    /\ last = NoCall
    /\ coord = CoordInit
    /\ marks = <<>>
    /\ wfLock = None
    /\ markTimes = <<>>
    /\ dropped = None
    /\ parked = FALSE
    /\ poisoned = NoPoison
    /\ InitCallers(Threads)

WorkflowNext ==
    \/ \E t \in Threads : ResetStartupToNeutral(t)
    \/ \E t \in Threads, path \in OpenPaths : SetEditFromOpenFile(t, path)
    \/ \E t \in Threads : TransitionEditToNeutral(t)
    \/ \E t \in Threads, v \in CreateTitles, now \in Instants : TryCreateBegin(t, v, now)
    \/ \E t \in Threads, v \in RenameTitles : TryRenameBegin(t, v)
    \/ \E t \in Threads, payload \in AutoSavePayloads : TryAutosaveBegin(t, payload)
    \/ \E t \in Threads : DispatchEnqueue(t)
    \/ \E t \in Threads : TryCreateComplete(t)
    \/ \E t \in Threads : TryRenameComplete(t)
    \/ \E t \in Threads : TryAutosaveComplete(t)
    \/ WorkerServe

WorkflowSpec == WorkflowSpecInit /\ [][WorkflowNext]_vars

---------------------------------------------------------------------------
(* Autosave coordinator: EditorAutoSaveCoordinator *)

\* the instants handed to the coordinator: half-idle steps, in milliseconds
CoordInstants == {i * (EDITOR_AUTOSAVE_IDLE_DURATION \div 2) : i \in 0..(MaxTick + 1)}
CoordPaths == {ExistingPath, CommonPath}
CoordTexts == {<<"x">>, <<"y">>}
CoordPayloads == {[current_path |-> p, editor_text |-> x] : p \in CoordPaths, x \in CoordTexts}

\* Instant::duration_since: zero when the earlier instant is the later one
duration_since(now, earlier) == IF now >= earlier THEN now - earlier ELSE 0

\* Duration::as_secs
as_secs(delta) == delta \div 1000

\* faulty variant: a pending payload is not overwritten
mark_keeps_first(st, payload, now) ==
    IF st.pinned_time = None
    THEN [pinned_time |-> Some(now), pending_payload |-> Some(payload),
          last_delta_trace_secs |-> None]
    ELSE st

\* faulty variant: every mark restarts the idle timer
mark_restarts_timer(st, payload, now) ==
    [st EXCEPT !.pinned_time = Some(now), !.last_delta_trace_secs = None,
               !.pending_payload = Some(payload)]

\* the coordinator state after mark_user_edit(payload, now)
mark_user_edit(st, payload, now) ==
    LET armed == IF st.pinned_time = None
                 THEN [st EXCEPT !.pinned_time = Some(now), !.last_delta_trace_secs = None]
                 ELSE st
    IN  [armed EXCEPT !.pending_payload = Some(payload)]

\* faulty variant: clearing the edit target is ignored
ignore_cleared_path(st, path) ==
    IF path # None /\ st.pending_payload # None
    THEN [st EXCEPT !.pending_payload =
                       Some([Unwrap(st.pending_payload) EXCEPT !.current_path = Unwrap(path)])]
    ELSE st

\* faulty variant: retargeting replaces the pending payload by an empty one for the new path
retarget_drops_text(st, path) ==
    IF path # None
    THEN IF st.pending_payload # None
         THEN [st EXCEPT !.pending_payload =
                            Some([current_path |-> Unwrap(path), editor_text |-> <<>>])]
         ELSE st
    ELSE [st EXCEPT !.pinned_time = None, !.pending_payload = None,
                    !.last_delta_trace_secs = None]

\* the coordinator state after on_edit_path_changed(path)
on_edit_path_changed(st, path) ==
    IF path # None
    THEN IF st.pending_payload # None
         THEN [st EXCEPT !.pending_payload =
                            Some([Unwrap(st.pending_payload) EXCEPT !.current_path = Unwrap(path)])]
         ELSE st
    ELSE [st EXCEPT !.pinned_time = None, !.pending_payload = None,
                    !.last_delta_trace_secs = None]

\* faulty variant: the timer is disarmed but the payload stays pending
disarm_keeps_payload(st) ==
    [st EXCEPT !.pinned_time = None, !.last_delta_trace_secs = None]

\* pop_due_payload, due: pending_payload.take(), pinned_time = None
Disarm(st) ==
    [st EXCEPT !.pending_payload = None, !.pinned_time = None,
               !.last_delta_trace_secs = None]

\* pop_due_payload: the trace of the elapsed whole seconds
TraceDelta(st, delta) ==
    IF st.pending_payload # None /\ st.last_delta_trace_secs # Some(as_secs(delta))
    THEN [st EXCEPT !.last_delta_trace_secs = Some(as_secs(delta))]
    ELSE st

\* the value returned by and the coordinator state after pop_due_payload(now, idle_duration)
pop_due_payload(st, now, idle_duration) ==
    IF st.pinned_time = None
    THEN [ret |-> None, state |-> st]
    ELSE LET delta == duration_since(now, Unwrap(st.pinned_time))
             traced == TraceDelta(st, delta)
         IN  IF delta < idle_duration
             THEN [ret |-> None, state |-> traced]
             ELSE [ret |-> traced.pending_payload, state |-> Disarm(traced)]

CoordUnchanged ==
    UNCHANGED <<queue, shutdown, workerPc, workerEnv, fs, wf, pc, call, chan, ret, ncalls,
                enqLog, execLog, atShutdown, wfLock, parked, poisoned>>

MarkUserEdit(payload, now) ==
    /\ coord.pinned_time # None => Len(marks) < MaxMarks
    /\ coord' = mark_user_edit(coord, payload, now)
    /\ marks' = IF coord.pinned_time = None THEN <<payload>> ELSE Append(marks, payload)
    /\ markTimes' = IF coord.pinned_time = None THEN <<now>> ELSE Append(markTimes, now)
    /\ dropped' = None
    /\ last' = [op |-> "mark_user_edit", ret |-> OkVal(None)]
    /\ CoordUnchanged

OnEditPathChanged(path) ==
    /\ coord' = on_edit_path_changed(coord, path)
    /\ marks' = marks
    /\ markTimes' = markTimes
    /\ dropped' = IF path = None /\ coord.pending_payload # None
                  THEN coord.pending_payload ELSE dropped
    /\ last' = [op |-> "on_edit_path_changed", ret |-> OkVal(None)]
    /\ CoordUnchanged

PopDuePayload(now, idle_duration) ==
    /\ coord' = pop_due_payload(coord, now, idle_duration).state
    /\ marks' = marks
    /\ markTimes' = markTimes
    /\ dropped' = dropped
    /\ last' = [op |-> "pop_due_payload",
                ret |-> OkVal(pop_due_payload(coord, now, idle_duration).ret)]
    /\ CoordUnchanged

CoordSpecInit == InitCommon /\ InitCallers(Threads)

CoordNext ==
    \/ \E payload \in CoordPayloads, now \in CoordInstants : MarkUserEdit(payload, now)
    \/ \E path \in {None} \cup {Some(p) : p \in CoordPaths} : OnEditPathChanged(path)
    \/ \E now \in CoordInstants : PopDuePayload(now, EDITOR_AUTOSAVE_IDLE_DURATION)

CoordSpec == CoordSpecInit /\ [][CoordNext]_vars

---------------------------------------------------------------------------
(* Workflow methods with the mutex guard made explicit *)

\* one instant and one new title are enough to reach every block of every method
LockInstants == {0}
LockRenameTitles == {CommonTitle}

\* the invocations a thread can start
LockCalls ==
    {[op |-> "snapshot"], [op |-> "transition_edit_to_neutral"]}
      \cup {[op |-> "set_edit_from_open_file", path |-> p] : p \in OpenPaths}
      \cup {[op |-> "try_create_from_neutral", singleline_value |-> v, now_instant |-> now] :
               v \in CreateTitles, now \in LockInstants}
      \cup {[op |-> "try_rename_in_edit", singleline_value |-> v] : v \in LockRenameTitles}
      \cup {[op |-> "try_autosave_in_edit", payload |-> payload] : payload \in AutoSavePayloads}

DispatchingOps == {"try_create_from_neutral", "try_rename_in_edit", "try_autosave_in_edit"}

\* faulty variant: the guard lives on after the locked block
guard_kept(t) == Some(t)

\* the mutex after the block (or method) that holds the guard ends: the guard is dropped
GuardDropped(t) == None

\* snapshot(): the copy made under the lock
Snapshot(w) == [state |-> w.state, current_edit_path |-> w.current_edit_path]

\* self.inner.lock() at the start of a method
LockAcquire(t, m) ==
    /\ pc[t] = "idle"
    /\ wfLock = None
    /\ m.op \in DispatchingOps => Started < MaxDispatch
    /\ wfLock' = Some(t)
    /\ call' = [call EXCEPT ![t] = m]
    /\ pc' = [pc EXCEPT ![t] = "locked1"]
    /\ UNCHANGED <<queue, shutdown, workerPc, workerEnv, fs, wf, chan, ret, ncalls,
                   enqLog, execLog, atShutdown, last, coord, marks, markTimes, dropped, parked, poisoned>>

\* the block under the first guard, up to the point where the guard is dropped
LockedFirst(t) ==
    /\ pc[t] = "locked1"
    /\ wfLock = Some(t)
    /\ LET m == call[t]
           back == /\ pc' = [pc EXCEPT ![t] = "idle"]
                   /\ call' = [call EXCEPT ![t] = NoCall]
                   /\ UNCHANGED <<chan, ncalls>>
       IN  CASE m.op = "snapshot" ->
                  /\ Returns(t, m.op, OkVal(Snapshot(wf)))
                  /\ UNCHANGED wf
                  /\ back
             [] m.op = "set_edit_from_open_file" ->
                  /\ wf' = ForceEdit(wf, m.path)
                  /\ Returns(t, m.op, OkVal(<<>>))
                  /\ back
             [] m.op = "transition_edit_to_neutral" ->
                  /\ IF ~InEdit(wf)
                     THEN Returns(t, m.op, OkVal(FALSE)) /\ UNCHANGED wf
                     ELSE Returns(t, m.op, OkVal(TRUE)) /\ wf' = EditToNeutral(wf)
                  /\ back
             [] m.op = "try_create_from_neutral" ->
                  IF wf.state # "Neutral"
                  THEN Returns(t, m.op, OkVal(None)) /\ UNCHANGED wf /\ back
                  ELSE IF ~CreateReady(wf.last_create_event_raised_at, m.now_instant)
                  THEN Returns(t, m.op, OkVal(None)) /\ wf' = EnterNew(wf) /\ back
                  ELSE /\ wf' = [EnterNew(wf) EXCEPT
                                   !.last_create_event_raised_at = Some(m.now_instant)]
                       /\ Dispatches(t, m.op, CreateEvent(Root, m.singleline_value, FixedNow))
                       /\ UNCHANGED last
             [] m.op = "try_rename_in_edit" ->
                  IF wf.state # "Edit" \/ wf.current_edit_path = None
                  THEN Returns(t, m.op, OkVal(None)) /\ UNCHANGED wf /\ back
                  ELSE /\ Dispatches(t, m.op, RenameEvent(Unwrap(wf.current_edit_path),
                                                          m.singleline_value, FixedNow))
                       /\ UNCHANGED <<wf, last>>
             [] m.op = "try_autosave_in_edit" ->
                  IF ~AutosaveApplies(wf, m.payload)
                  THEN Returns(t, m.op, OkVal(FALSE)) /\ UNCHANGED wf /\ back
                  ELSE /\ Dispatches(t, m.op, AutoSaveEvent(m.payload))
                       /\ UNCHANGED <<wf, last>>
    /\ wfLock' = GuardDropped(t)
    /\ parked' = \/ /\ call[t].op = "try_create_from_neutral"
                     /\ wf.state = "Neutral"
                     /\ ~CreateReady(wf.last_create_event_raised_at, call[t].now_instant)
                  \/ (parked /\ wf'.state = "New")
    /\ UNCHANGED <<queue, shutdown, workerPc, workerEnv, fs, ret, enqLog, execLog,
                   atShutdown, coord, marks, markTimes, dropped, poisoned>>

\* the response asks for a state update: Created for a create, Renamed for a rename
NeedsSecondLock(t) ==
    /\ Received(t)
    /\ ResponseOf(t).ok
    /\ \/ call[t].op = "try_create_from_neutral" /\ ResponseOf(t).kind = "Created"
       \/ call[t].op = "try_rename_in_edit" /\ ResponseOf(t).kind = "Renamed"

\* self.inner.lock() in the match arm of the response
LockAcquireSecond(t) ==
    /\ pc[t] = "recv"
    /\ NeedsSecondLock(t)
    /\ wfLock = None
    /\ wfLock' = Some(t)
    /\ pc' = [pc EXCEPT ![t] = "locked2"]
    /\ UNCHANGED <<queue, shutdown, workerPc, workerEnv, fs, wf, call, chan, ret, ncalls,
                   enqLog, execLog, atShutdown, last, coord, marks, markTimes, dropped, parked, poisoned>>

\* the match arm under the second guard
LockedSecond(t) ==
    /\ pc[t] = "locked2"
    /\ wfLock = Some(t)
    /\ wf' = IF call[t].op = "try_create_from_neutral"
             THEN EnterEditCreated(wf, ResponseOf(t).path)
             ELSE SetRenamedPath(wf, ResponseOf(t).path)
    /\ Returns(t, call[t].op, OkVal(Some(ResponseOf(t).path)))
    /\ Finished(t)
    /\ wfLock' = GuardDropped(t)
    /\ StaysParked
    /\ UNCHANGED <<queue, shutdown, workerPc, workerEnv, fs, ret, ncalls, enqLog, execLog,
                   atShutdown, coord, marks, markTimes, dropped, poisoned>>

\* the response needs no state update: the method returns without locking
ReturnUnlocked(t) ==
    /\ pc[t] = "recv"
    /\ Received(t)
    /\ ~NeedsSecondLock(t)
    /\ IF ~ResponseOf(t).ok
       THEN Returns(t, call[t].op, ResponseOf(t))
       ELSE IF call[t].op = "try_autosave_in_edit"
       THEN Returns(t, call[t].op, OkVal(ResponseOf(t).kind = "AutoSaved"))
       ELSE Returns(t, call[t].op, OkVal(None))
    /\ Finished(t)
    /\ UNCHANGED <<queue, shutdown, workerPc, workerEnv, fs, wf, ret, ncalls, enqLog, execLog,
                   atShutdown, coord, marks, wfLock, markTimes, dropped, parked, poisoned>>

LockNext ==
    \/ \E t \in Threads, m \in LockCalls : LockAcquire(t, m)
    \/ \E t \in Threads : LockedFirst(t)
    \/ \E t \in Threads : DispatchEnqueue(t)
    \/ \E t \in Threads : LockAcquireSecond(t)
    \/ \E t \in Threads : LockedSecond(t)
    \/ \E t \in Threads : ReturnUnlocked(t)
    \/ WorkerCheck
    \/ WorkerExecute

LockSpec == WorkflowSpecInit /\ [][LockNext]_vars

---------------------------------------------------------------------------
(* Properties of the event dispatcher *)

Executed == [i \in 1..Len(execLog) |-> execLog[i].envelope]
InFlight == (IF workerEnv = None THEN <<>> ELSE <<Unwrap(workerEnv)>>) \o queue
AllIdle == \A t \in DOMAIN pc : pc[t] = "idle"
OnlyCreates == \A k \in 1..Len(enqLog) : enqLog[k].event.kind = "Create"
DailyFiles == {p \in DOMAIN fs : p.dir = daily_directory(Root, FixedNow)}
StemOf(envelope) ==
    stem_from_singleline_value(envelope.event.request.singleline_value, envelope.event.request.now)

\* C1: the worker executes the commands one at a time in the order they were
\* appended to the queue (executed, then the one in execution, then the queued
\* ones, are the appended ones in order), and the message in a caller's channel
\* is the result the worker computed for that caller's own envelope.
C1_FifoOwnResult ==
    /\ Executed \o InFlight = enqLog
    /\ \A t \in DOMAIN chan :
          chan[t] # None =>
             /\ Unwrap(chan[t]).of = ChannelOf(t)
             /\ \E i \in 1..Len(execLog) :
                   /\ execLog[i].envelope = Envelope(call[t].event, ChannelOf(t))
                   /\ execLog[i].result = Unwrap(chan[t]).result

C1_Witness ==
    /\ Len(execLog) >= 2
    /\ execLog[1].envelope.response_tx[1] # execLog[2].envelope.response_tx[1]
    /\ enqLog[1] = execLog[1].envelope /\ enqLog[2] = execLog[2].envelope
    /\ \E t \in DOMAIN chan : chan[t] # None

\* C2: no envelope is executed or answered twice, every executed envelope was
\* enqueued, and once every call has returned every enqueued envelope was executed;
\* if all the calls were creates, all of them returned success and the daily
\* directory holds exactly as many files as there were calls.
C2_ExactlyOnce ==
    /\ \A i, j \in 1..Len(execLog) :
          execLog[i].envelope.response_tx = execLog[j].envelope.response_tx => i = j
    /\ \A i \in 1..Len(execLog) : \E k \in 1..Len(enqLog) : enqLog[k] = execLog[i].envelope
    /\ AllIdle => Len(execLog) = Len(enqLog)
    /\ (AllIdle /\ OnlyCreates) =>
          /\ \A i \in 1..Len(execLog) : execLog[i].result.ok
          /\ \A t \in DOMAIN ret : ncalls[t] > 0 => ret[t].ok
          /\ Cardinality(DailyFiles) = Len(enqLog)

C2_Witness ==
    /\ AllIdle
    /\ \A t \in DOMAIN pc :
          /\ ncalls[t] = 1
          /\ call[t].event = CreateEvent(Root, OwnTitle(t), FixedNow)
          /\ ret[t].ok
    /\ Cardinality(DailyFiles) = Cardinality(DOMAIN pc)

\* C3: no create ever fails with already-exists; when only creates were executed,
\* the i-th of them returned <stem>.txt if it was the first with its stem and
\* <stem>_k.txt if it was the k-th, so the returned paths are pairwise distinct.
C3_NoCreateRace ==
    /\ \A i \in 1..Len(execLog) :
          execLog[i].result.ok \/ execLog[i].result.err # "AlreadyExists"
    /\ (\A i \in 1..Len(execLog) : execLog[i].envelope.event.kind = "Create") =>
          \A i \in 1..Len(execLog) :
             LET stem == StemOf(execLog[i].envelope)
                 k == 1 + Cardinality({j \in 1..(i - 1) : StemOf(execLog[j].envelope) = stem})
             IN  execLog[i].result =
                    Ok("Created", Join(daily_directory(Root, FixedNow), TxtName(stem, k)))

C3_Witness ==
    /\ Len(execLog) >= 2
    /\ execLog[1].envelope.event = CreateEvent(Root, CommonTitle, FixedNow)
    /\ execLog[2].envelope.event = CreateEvent(Root, CommonTitle, FixedNow)
    /\ execLog[1].envelope.response_tx[1] # execLog[2].envelope.response_tx[1]
    /\ execLog[2].result.ok
    /\ execLog[2].result.path = Join(daily_directory(Root, FixedNow), TxtName(CommonTitle, 2))

\* C4: with a fairly scheduled worker, every dispatch_blocking call that has
\* started returns, unless the dispatcher is shut down.
C4_EveryCallReturns ==
    \A t \in Producers : (pc[t] = "recv") ~> (pc[t] = "idle" \/ shutdown)

C4_Witness ==
    /\ ~shutdown
    /\ workerPc = "waiting"
    /\ \E t \in DOMAIN pc : pc[t] = "idle" /\ ncalls[t] > 0 /\ ret[t].ok
    /\ Len(execLog) >= 2

\* C5: once the worker thread has terminated, a caller blocked in recv() can
\* return: it has a message, or its Sender is gone and recv() fails (BrokenPipe).
WorkerTerminated == workerPc \in {"exited", "dead"}

C5_TerminationIsSurfaced ==
    WorkerTerminated =>
       \A t \in DOMAIN pc : pc[t] = "recv" => (chan[t] # None \/ ~SenderAlive(t))

\* C6: the worker leaves its loop only with the flag set and the queue empty,
\* having executed and answered every envelope that was queued when the flag
\* was set; and every envelope that is queued while the flag is set and the
\* worker is still running is eventually answered.
C6_ShutdownDrains ==
    /\ [][(workerPc # "exited" /\ workerPc' = "exited") =>
             /\ shutdown /\ queue = <<>> /\ queue' = <<>>
             /\ \A k \in 1..Len(atShutdown) :
                   \E i \in 1..Len(execLog) : execLog[i].envelope = atShutdown[k]]_vars
    /\ \A t \in Producers :
          (shutdown /\ workerPc # "exited" /\ pc[t] = "recv") ~> (chan[t] # None)

C6_Witness ==
    /\ workerPc = "exited"
    /\ Len(atShutdown) >= 2
    /\ \A k \in 1..Len(atShutdown) :
          \E i \in 1..Len(execLog) : execLog[i].envelope = atShutdown[k]

---------------------------------------------------------------------------
(* Properties of the workflow state machine *)

\* C7: in every reachable state, under any interleaving of the public
\* operations, current_edit_path is Some only if the state is Edit.
C7_PathOnlyInEdit ==
    wf.current_edit_path # None => wf.state = "Edit"

\* C8: in every reachable state, state Edit implies that current_edit_path is set.
C8_EditHasPath ==
    wf.state = "Edit" => wf.current_edit_path # None

C8_Witness ==
    /\ wf.state = "Edit"
    /\ last.op = "try_create_from_neutral"
    /\ last.ret.ok
    /\ last.ret.value # None
    /\ wf.current_edit_path = last.ret.value

\* C9: a fresh workflow is Neutral with no edit path; from any state
\* reset_startup_to_neutral yields Neutral with no path and
\* set_edit_from_open_file(p) yields Edit with path p, and neither enqueues
\* anything, starts a dispatch or leaves its thread blocked.
C9_ForcedTransitions ==
    /\ (wf.state = "Neutral" /\ wf.current_edit_path = None)
    /\ [][\A t \in Threads :
            (last'.op = "reset_startup_to_neutral" /\ ResetStartupToNeutral(t)) =>
               /\ wf'.state = "Neutral" /\ wf'.current_edit_path = None
               /\ queue' = queue /\ ncalls' = ncalls /\ pc'[t] = "idle"]_vars
    /\ [][\A t \in Threads, p \in OpenPaths :
            (last'.op = "set_edit_from_open_file" /\ SetEditFromOpenFile(t, p)) =>
               /\ wf'.state = "Edit" /\ wf'.current_edit_path = Some(p)
               /\ queue' = queue /\ ncalls' = ncalls /\ pc'[t] = "idle"]_vars

C9_Witness ==
    /\ last.op = "set_edit_from_open_file"
    /\ wf.state = "Edit"
    /\ wf.current_edit_path = Some(ExistingPath)
    /\ wf.last_create_event_raised_at # None
    /\ queue = <<>>

\* C10: transition_edit_to_neutral returns true exactly when the state was Edit,
\* and then the state is Neutral and the path cleared; otherwise it returns
\* false and leaves state and path as they were.
C10_TransitionEditToNeutral ==
    [][\A t \in Threads :
          (last'.op = "transition_edit_to_neutral" /\ TransitionEditToNeutral(t)) =>
             IF wf.state = "Edit"
             THEN /\ last'.ret = OkVal(TRUE)
                  /\ wf'.state = "Neutral" /\ wf'.current_edit_path = None
             ELSE /\ last'.ret = OkVal(FALSE)
                  /\ wf'.state = wf.state
                  /\ wf'.current_edit_path = wf.current_edit_path]_vars

C10_Witness ==
    /\ last.op = "transition_edit_to_neutral"
    /\ last.ret = OkVal(TRUE)
    /\ wf.state = "Neutral"
    /\ wf.current_edit_path = None
    /\ fs # [p \in {ExistingPath} |-> <<>>]

---------------------------------------------------------------------------
(* Properties of try_create_from_neutral *)

\* the time between the caller's instant and the last create dispatch
Elapsed(w, now_instant) ==
    checked_duration_since(now_instant, Unwrap(w.last_create_event_raised_at))

\* C11: a try_create_from_neutral call made in Neutral that is not throttled
\* dispatches exactly one create request; when the worker reports success the
\* workflow is in Edit with current_edit_path equal to the returned path, the
\* call returns that path, and the file exists on disk.
C11_CreateFromNeutral ==
    /\ [][\A t \in Threads, v \in CreateTitles, now \in Instants :
            (/\ wf.state = "Neutral"
             /\ CreateReady(wf.last_create_event_raised_at, now)
             /\ TryCreateBegin(t, v, now))
            => /\ pc'[t] = "enqueue"
               /\ ncalls'[t] = ncalls[t] + 1
               /\ call'[t].event = CreateEvent(Root, v, FixedNow)
               /\ queue' = queue]_vars
    /\ [][\A t \in Threads :
            (/\ pc[t] = "enqueue"
             /\ call[t].op = "try_create_from_neutral"
             /\ DispatchEnqueue(t))
            => queue' = Append(queue, Envelope(call[t].event, ChannelOf(t)))]_vars
    /\ [][\A t \in Threads :
            (/\ Received(t)
             /\ call[t].op = "try_create_from_neutral"
             /\ ResponseOf(t).ok
             /\ ResponseOf(t).kind = "Created"
             /\ last'.op = "try_create_from_neutral"
             /\ TryCreateComplete(t))
            => /\ wf'.state = "Edit"
               /\ wf'.current_edit_path = Some(ResponseOf(t).path)
               /\ last'.ret = OkVal(Some(ResponseOf(t).path))
               /\ Exists(fs', ResponseOf(t).path)]_vars

C11_Witness ==
    /\ last.op = "try_create_from_neutral"
    /\ last.ret = OkVal(Some(CommonPath))
    /\ wf.state = "Edit"
    /\ wf.current_edit_path = Some(CommonPath)
    /\ Exists(fs, CommonPath)
    /\ AllIdle

\* C12: try_create_from_neutral called in New or Edit returns no path,
\* dispatches nothing and changes neither state nor path; a create is
\* dispatched only by the step that takes Neutral to New, so of several
\* threads calling on a Neutral workflow at most one dispatches.
C12_CreateOnlyFromNeutral ==
    /\ [][\A t \in Threads, v \in CreateTitles, now \in Instants :
            (/\ wf.state \in {"New", "Edit"}
             /\ last'.op = "try_create_from_neutral"
             /\ TryCreateBegin(t, v, now))
            => /\ last'.ret = OkVal(None)
               /\ wf' = wf
               /\ queue' = queue /\ ncalls' = ncalls /\ pc' = pc /\ fs' = fs]_vars
    /\ [][\A t \in Threads :
            (/\ pc[t] = "idle"
             /\ pc'[t] = "enqueue"
             /\ call'[t].op = "try_create_from_neutral")
            => /\ wf.state = "Neutral"
               /\ wf'.state = "New"]_vars

C12_Witness ==
    /\ \E t \in Threads :
          /\ pc[t] = "recv"
          /\ call[t].op = "try_create_from_neutral"
    /\ Started = 1
    /\ last.op = "try_create_from_neutral"
    /\ last.ret = OkVal(None)
    /\ wf.state = "New"

\* C13: a try_create_from_neutral call made in Neutral within the minimum
\* interval of the previous create dispatch returns no path, dispatches
\* nothing, creates no file, and leaves the workflow in New with no edit path.
C13_ThrottledCreate ==
    [][\A t \in Threads, v \in CreateTitles, now \in Instants :
          (/\ wf.state = "Neutral"
           /\ wf.last_create_event_raised_at # None
           /\ Elapsed(wf, now) # None
           /\ Unwrap(Elapsed(wf, now)) < CREATE_EVENT_MIN_INTERVAL
           /\ last'.op = "try_create_from_neutral"
           /\ TryCreateBegin(t, v, now))
          => /\ last'.ret = OkVal(None)
             /\ queue' = queue /\ ncalls' = ncalls /\ pc' = pc /\ fs' = fs
             /\ wf'.state = "New"
             /\ wf'.current_edit_path = None]_vars

\* C14: a try_create_from_neutral call made in Neutral is throttled (returns
\* without dispatching) only when the elapsed time since the last create
\* dispatch is below CREATE_EVENT_MIN_INTERVAL (an instant earlier than the last
\* dispatch counts as below).
C14_ThrottledOnlyBelowInterval ==
    [][\A t \in Threads, v \in CreateTitles, now \in Instants :
          (/\ wf.state = "Neutral"
           /\ last'.op = "try_create_from_neutral"
           /\ TryCreateBegin(t, v, now))
          => /\ wf.last_create_event_raised_at # None
             /\ \/ Elapsed(wf, now) = None
                \/ Unwrap(Elapsed(wf, now)) < CREATE_EVENT_MIN_INTERVAL]_vars

\* the caller's instant is not later than the interval after the last create dispatch
WithinInterval(w, now_instant) ==
    /\ w.last_create_event_raised_at # None
    /\ \/ Elapsed(w, now_instant) = None
       \/ Unwrap(Elapsed(w, now_instant)) <= CREATE_EVENT_MIN_INTERVAL

\* C14 (amended): a try_create_from_neutral call made in Neutral is throttled
\* exactly when a create has been dispatched before and the elapsed time since
\* then is at most CREATE_EVENT_MIN_INTERVAL (or the instant precedes it); it
\* dispatches when the elapsed time is strictly greater or nothing was
\* dispatched before.
C14_ThrottledUpToInterval ==
    /\ [][\A t \in Threads, v \in CreateTitles, now \in Instants :
            (/\ wf.state = "Neutral"
             /\ ~WithinInterval(wf, now)
             /\ TryCreateBegin(t, v, now))
            => pc'[t] = "enqueue"]_vars
    /\ [][\A t \in Threads, v \in CreateTitles, now \in Instants :
            (/\ wf.state = "Neutral"
             /\ WithinInterval(wf, now)
             /\ TryCreateBegin(t, v, now))
            => /\ pc'[t] = "idle"
               /\ ncalls' = ncalls
               /\ last'.op = "try_create_from_neutral"
               /\ last'.ret = OkVal(None)]_vars

C14_Witness ==
    /\ wf.state = "New"
    /\ wf.last_create_event_raised_at = Some(0)
    /\ last.op = "try_create_from_neutral"
    /\ last.ret = OkVal(None)
    /\ AllIdle
    /\ Started = 1

---------------------------------------------------------------------------
(* Properties of try_rename_in_edit and try_autosave_in_edit *)

\* C15: try_rename_in_edit dispatches a rename only when the state is Edit with
\* a set path, with the current edit path as the source; on success the state
\* is Edit and current_edit_path is the returned path; called in Neutral or New
\* it returns no path, dispatches nothing and changes nothing.
C15_RenameInEdit ==
    /\ [][\A t \in Threads :
            (/\ pc[t] = "idle"
             /\ pc'[t] = "enqueue"
             /\ call'[t].op = "try_rename_in_edit")
            => /\ wf.state = "Edit"
               /\ wf.current_edit_path = Some(call'[t].event.request.current_path)]_vars
    /\ [][\A t \in Threads :
            (/\ Received(t)
             /\ call[t].op = "try_rename_in_edit"
             /\ ResponseOf(t).ok
             /\ ResponseOf(t).kind = "Renamed"
             /\ last'.op = "try_rename_in_edit"
             /\ TryRenameComplete(t))
            => /\ wf'.state = "Edit"
               /\ wf'.current_edit_path = Some(ResponseOf(t).path)
               /\ last'.ret = OkVal(Some(ResponseOf(t).path))]_vars
    /\ [][\A t \in Threads, v \in RenameTitles :
            (/\ wf.state \in {"Neutral", "New"}
             /\ last'.op = "try_rename_in_edit"
             /\ TryRenameBegin(t, v))
            => /\ last'.ret = OkVal(None)
               /\ wf' = wf
               /\ queue' = queue /\ ncalls' = ncalls /\ pc' = pc /\ fs' = fs]_vars

\* C16: try_autosave_in_edit(payload) dispatches an autosave if and only if the
\* state is Edit and current_edit_path equals payload.current_path; otherwise
\* it returns false without dispatching and without touching any file; no step
\* of the call changes the workflow's state or current_edit_path.
C16_AutosaveInEdit ==
    /\ [][\A t \in Threads, payload \in AutoSavePayloads :
            (/\ wf.state = "Edit"
             /\ wf.current_edit_path = Some(payload.current_path)
             /\ TryAutosaveBegin(t, payload))
            => /\ pc'[t] = "enqueue"
               /\ call'[t].event = AutoSaveEvent(payload)
               /\ wf' = wf]_vars
    /\ [][\A t \in Threads :
            (/\ pc[t] = "idle"
             /\ pc'[t] = "enqueue"
             /\ call'[t].op = "try_autosave_in_edit")
            => /\ wf.state = "Edit"
               /\ wf.current_edit_path = Some(call'[t].event.payload.current_path)]_vars
    /\ [][\A t \in Threads, payload \in AutoSavePayloads :
            (/\ ~(wf.state = "Edit" /\ wf.current_edit_path = Some(payload.current_path))
             /\ last'.op = "try_autosave_in_edit"
             /\ TryAutosaveBegin(t, payload))
            => /\ last'.ret = OkVal(FALSE)
               /\ queue' = queue /\ ncalls' = ncalls /\ pc' = pc /\ fs' = fs
               /\ wf' = wf]_vars
    /\ [][\A t \in Threads :
            (/\ call[t].op = "try_autosave_in_edit"
             /\ \/ DispatchEnqueue(t)
                \/ (last'.op = "try_autosave_in_edit" /\ TryAutosaveComplete(t)))
            => wf' = wf]_vars

C16_Witness ==
    /\ last.op = "try_autosave_in_edit"
    /\ last.ret = OkVal(FALSE)
    /\ wf.state = "Edit"
    /\ wf.current_edit_path = Some(CommonPath)
    /\ \A p \in DOMAIN fs : fs[p] = <<>>
    /\ AllIdle

\* C17: when the worker performs an autosave write, the payload's path is the
\* workflow's current edit path and the state is Edit, so the write never
\* creates a file at a path that was renamed or switched away from.
C17_NoStaleAutosaveWrite ==
    [][(/\ queue # <<>>
        /\ Head(queue).event.kind = "AutoSave"
        /\ WorkerServe)
       => /\ wf.state = "Edit"
          /\ wf.current_edit_path = Some(Head(queue).event.payload.current_path)
          /\ Exists(fs, Head(queue).event.payload.current_path)]_vars

---------------------------------------------------------------------------
(* Properties of the autosave coordinator *)

\* C19: a pending payload exists only if a pinned time is set, and pinned time
\* and pending payload are always cleared in the same step.
C19_PendingImpliesPinned ==
    /\ [](coord.pending_payload # None => coord.pinned_time # None)
    /\ [][(coord.pinned_time # None /\ coord'.pinned_time = None)
            => coord'.pending_payload = None]_vars
    /\ [][(coord.pending_payload # None /\ coord'.pending_payload = None)
            => coord'.pinned_time = None]_vars

C19_Witness ==
    /\ coord.pinned_time = None
    /\ coord.pending_payload = None
    /\ last.op = "pop_due_payload"
    /\ last.ret.value # None

\* C20: when mark_user_edit is called several times before the payload is due,
\* the next due pop_due_payload returns one payload, the one of the last
\* mark_user_edit call; the earlier ones are not returned.
C20_LastMarkWins ==
    /\ [][\A now \in CoordInstants :
             (/\ Len(marks) >= 1
              /\ coord.pinned_time # None
              /\ duration_since(now, Unwrap(coord.pinned_time)) >= EDITOR_AUTOSAVE_IDLE_DURATION
              /\ last'.op = "pop_due_payload"
              /\ PopDuePayload(now, EDITOR_AUTOSAVE_IDLE_DURATION))
             => /\ last'.ret.value # None
                /\ Unwrap(last'.ret.value).editor_text = marks[Len(marks)].editor_text
                /\ coord'.pending_payload = None
                /\ coord'.pinned_time = None]_vars
    /\ [][\A now \in CoordInstants :
            (/\ coord.pinned_time = None
             /\ last'.op = "pop_due_payload"
             /\ PopDuePayload(now, EDITOR_AUTOSAVE_IDLE_DURATION))
            => last'.ret.value = None]_vars

C20_Witness ==
    /\ Len(marks) >= 2
    /\ marks[1].current_path = marks[Len(marks)].current_path
    /\ marks[1].editor_text # marks[Len(marks)].editor_text
    /\ last.op = "pop_due_payload"
    /\ last.ret.value = Some(marks[Len(marks)])
    /\ coord = CoordInit

---------------------------------------------------------------------------
(* Properties of the workflow mutex *)

\* C18: the workflow mutex is never held by a thread that is inside
\* dispatch_blocking, and whoever holds it is inside an in-memory block whose
\* next step needs nothing from the worker; so while an operation is in flight
\* or the worker performs file-system I/O, another thread's snapshot() gets the
\* lock without waiting for that operation.
C18_LockNotHeldAcrossDispatch ==
    /\ \A t \in Threads : pc[t] \in {"enqueue", "recv"} => wfLock # Some(t)
    /\ \A t \in Threads :
          wfLock = Some(t) =>
             /\ pc[t] \in {"locked1", "locked2"}
             /\ ENABLED (LockedFirst(t) \/ LockedSecond(t))

C18_Witness ==
    \E t \in Threads, u \in Threads :
       /\ pc[t] = "recv"
       /\ chan[t] = None
       /\ workerPc = "exec"
       /\ Unwrap(workerEnv).response_tx = ChannelOf(t)
       /\ wfLock = Some(u)
       /\ call[u].op = "snapshot"

---------------------------------------------------------------------------
(* Atomic writer, one file-system call per step: save_editor_text_payload_atomic *)

Writers == {"worker"}
TargetOs == {"unix", "windows"}
OldText == <<"o", "l", "d">>
StaleText == <<"j">>
AtomicTexts == {<<"n", "e", "w">>, <<"\"", "\n">>}
AtomicPaths == {ExistingPath, CommonPath}
AtomicPayloads == {[current_path |-> p, editor_text |-> x] : p \in AtomicPaths, x \in AtomicTexts}

\* what write_all can leave in the file when it fails
Prefixes(bytes) == {SubSeq(bytes, 1, k) : k \in 0..(Len(bytes) - 1)}

Without(files, path) == [p \in DOMAIN files \ {path} |-> files[p]]
With(files, path, content) ==
    [p \in DOMAIN files \cup {path} |-> IF p = path THEN content ELSE files[p]]

\* fs::rename(temp_path, target_path): the target is replaced in one step, or nothing changes
rename(files, temp_path, target_path) ==
    {[ok |-> TRUE, files |-> Without(With(files, target_path, files[temp_path]), temp_path)],
     [ok |-> FALSE, files |-> files]}

\* ReplaceFileW(target, temp, NULL, 0, NULL, NULL): on failure both files keep their
\* names (ERROR_UNABLE_TO_REMOVE_REPLACED), or, no backup name being given, the
\* replaced file no longer exists and the replacement keeps its name
\* (ERROR_UNABLE_TO_MOVE_REPLACEMENT)
ReplaceFileW(files, temp_path, target_path) ==
    {[ok |-> TRUE, files |-> Without(With(files, target_path, files[temp_path]), temp_path)],
     [ok |-> FALSE, files |-> files],
     [ok |-> FALSE, files |-> Without(files, target_path)]}

\* faulty variant: the new bytes are appended to the old content
replace_appends(files, temp_path, target_path, target_os) ==
    {[ok |-> TRUE,
      files |-> Without(With(files, target_path,
                             (IF Exists(files, target_path) THEN files[target_path] ELSE <<>>)
                               \o files[temp_path]),
                        temp_path)],
     [ok |-> FALSE, files |-> files]}

\* the outcomes of replace_editor_target_with_temp(temp_path, target_path)
replace_editor_target_with_temp(files, temp_path, target_path, target_os) ==
    IF target_os = "windows"
    THEN IF ~Exists(files, target_path)
         THEN rename(files, temp_path, target_path)
         ELSE ReplaceFileW(files, temp_path, target_path)
    ELSE rename(files, temp_path, target_path)

AtomicUnchanged ==
    UNCHANGED <<queue, shutdown, workerPc, workerEnv, wf, chan, ncalls, enqLog, execLog,
                atShutdown, coord, marks, wfLock, markTimes, dropped, parked, poisoned>>

TempOf(w) == editor_temp_path_for_atomic_write(call[w].path)

\* the write goes on with its next file-system call
Proceed(w, position, files) ==
    /\ pc' = [pc EXCEPT ![w] = position]
    /\ fs' = files
    /\ UNCHANGED <<call, ret, last>>

\* process_event hands the result of the write back
WriteReturns(w, result, files) ==
    /\ pc' = [pc EXCEPT ![w] = "idle"]
    /\ fs' = files
    /\ last' = [op |-> "save_editor_text_payload_atomic", ret |-> result]
    /\ UNCHANGED <<call, ret>>

\* an autosave that try_autosave_in_edit dispatched reaches the worker:
\* save_editor_text_payload_atomic, the serde round trip, then path.parent()
SaveBegin(w, payload) ==
    /\ pc[w] = "idle"
    /\ AutosaveApplies(wf, payload)
    /\ LET decoded == from_slice(to_vec(payload))
       IN  IF ~decoded.ok
           THEN /\ WriteReturns(w, Err("InvalidData"), fs)
           ELSE /\ call' = [call EXCEPT ![w] =
                              [op |-> "save_editor_text_payload_atomic",
                               payload |-> payload,
                               path |-> decoded.value.current_path,
                               bytes |-> decoded.value.editor_text,
                               before |-> IF Exists(fs, decoded.value.current_path)
                                          THEN Some(fs[decoded.value.current_path])
                                          ELSE None,
                               target_os |-> call[w].target_os]]
                /\ pc' = [pc EXCEPT ![w] = "create_dir_all"]
                /\ UNCHANGED <<fs, ret, last>>
    /\ AtomicUnchanged

\* fs::create_dir_all(parent)?
CreateDirAll(w, ok) ==
    /\ pc[w] = "create_dir_all"
    /\ IF ok THEN Proceed(w, "remove_stale", fs)
             ELSE WriteReturns(w, Err("create_dir_all"), fs)
    /\ AtomicUnchanged

\* if temp_path.is_file() { fs::remove_file(&temp_path)?; }
RemoveStaleTemp(w, ok) ==
    /\ pc[w] = "remove_stale"
    /\ IF Exists(fs, TempOf(w))
       THEN IF ok THEN Proceed(w, "create_temp", Without(fs, TempOf(w)))
                  ELSE WriteReturns(w, Err("remove_file"), fs)
       ELSE /\ ok
            /\ Proceed(w, "create_temp", fs)
    /\ AtomicUnchanged

\* fs::File::create(&temp_path)
CreateTemp(w, ok) ==
    /\ pc[w] = "create_temp"
    /\ IF ok THEN Proceed(w, "write_all", With(fs, TempOf(w), <<>>))
             ELSE WriteReturns(w, Err("create temp"), fs)
    /\ AtomicUnchanged

\* write_all(&mut temp_file, bytes): all the bytes, or an error after some of them
WriteAll(w) ==
    /\ pc[w] = "write_all"
    /\ \E written \in Prefixes(call[w].bytes) \cup {call[w].bytes} :
          IF written = call[w].bytes
          THEN Proceed(w, "sync_all", With(fs, TempOf(w), written))
          ELSE WriteReturns(w, Err("write temp"), With(fs, TempOf(w), written))
    /\ AtomicUnchanged

\* temp_file.sync_all(), drop(temp_file)
SyncAll(w, ok) ==
    /\ pc[w] = "sync_all"
    /\ IF ok THEN Proceed(w, "replace", fs)
             ELSE WriteReturns(w, Err("sync temp"), fs)
    /\ AtomicUnchanged

\* replace_fn(&temp_path, path)
ReplaceTarget(w) ==
    /\ pc[w] = "replace"
    /\ \E outcome \in replace_editor_target_with_temp(fs, TempOf(w), call[w].path,
                                                      call[w].target_os) :
          IF outcome.ok
          THEN WriteReturns(w, Ok("AutoSaved", call[w].path), outcome.files)
          ELSE Proceed(w, "cleanup_temp", outcome.files)
    /\ AtomicUnchanged

\* cleanup_editor_temp_file(&temp_path) after a failed replace
CleanupTemp(w, ok) ==
    /\ pc[w] = "cleanup_temp"
    /\ IF ok
       THEN WriteReturns(w, Err("replace target"),
                         IF Exists(fs, TempOf(w)) THEN Without(fs, TempOf(w)) ELSE fs)
       ELSE /\ Exists(fs, TempOf(w))
            /\ WriteReturns(w, Err("replace target; cleanup temp failed"), fs)
    /\ AtomicUnchanged

\* the process dies between two file-system calls and is started again
Crash(w) ==
    /\ pc[w] # "idle"
    /\ pc' = [pc EXCEPT ![w] = "idle"]
    /\ last' = [op |-> "crash", ret |-> NoReturn]
    /\ UNCHANGED <<fs, call, ret>>
    /\ AtomicUnchanged

AtomicSpecInit ==
    /\ queue = <<>>
    /\ shutdown = FALSE
    /\ workerPc = "ready"
    /\ workerEnv = None
    /\ \E stale \in BOOLEAN :
          fs = [p \in {ExistingPath}
                        \cup (IF stale THEN {editor_temp_path_for_atomic_write(ExistingPath)} ELSE {})
                  |-> IF p = ExistingPath THEN OldText ELSE StaleText]
    /\ \E path \in AtomicPaths : wf = ForceEdit(WorkflowInit, path)
    /\ enqLog = <<>>
    /\ execLog = <<>>
    /\ atShutdown = <<>>
    /\ last = NoCall
    /\ coord = CoordInit
    /\ marks = <<>>
    /\ wfLock = None
    /\ markTimes = <<>>
    /\ dropped = None
    /\ parked = FALSE
    /\ poisoned = NoPoison
    /\ pc = [w \in Writers |-> "idle"]
    /\ \E os \in TargetOs : call = [w \in Writers |-> [op |-> "none", target_os |-> os]]
    /\ chan = [w \in Writers |-> None]
    /\ ret = [w \in Writers |-> NoReturn]
    /\ ncalls = [w \in Writers |-> 0]

AtomicNext ==
    \E w \in Writers :
       \/ \E payload \in AtomicPayloads : SaveBegin(w, payload)
       \/ \E ok \in BOOLEAN : CreateDirAll(w, ok)
       \/ \E ok \in BOOLEAN : RemoveStaleTemp(w, ok)
       \/ \E ok \in BOOLEAN : CreateTemp(w, ok)
       \/ WriteAll(w)
       \/ \E ok \in BOOLEAN : SyncAll(w, ok)
       \/ ReplaceTarget(w)
       \/ \E ok \in BOOLEAN : CleanupTemp(w, ok)
       \/ Crash(w)

AtomicSpec == AtomicSpecInit /\ [][AtomicNext]_vars

---------------------------------------------------------------------------
(* Naming resolver called directly: create_new_text_file, rename_text_file *)

\* a request the day after fixed_now()
NextDay == [FixedNow EXCEPT !.day = 1, !.month = 3]
Nows == {FixedNow, NextDay}
NamingTitles == {CommonTitle, <<"b">>}

\* the files a run can start with: collisions for the common title, with gaps
SeedPaths ==
    {Join(daily_directory(Root, FixedNow), TxtName(CommonTitle, k)) : k \in 1..3}
      \cup {Join(daily_directory(Root, NextDay), TxtName(CommonTitle, 1))}

NamingUnchanged ==
    UNCHANGED <<queue, shutdown, workerPc, workerEnv, wf, pc, call, chan, ret, ncalls,
                enqLog, atShutdown, coord, marks, wfLock, markTimes, dropped, parked, poisoned>>

CreateNewTextFile(request) ==
    /\ Len(execLog) < MaxNamingOps
    /\ fs' = create_new_text_file(fs, request).files
    /\ execLog' = Append(execLog, [request |-> request,
                                   result |-> create_new_text_file(fs, request).result])
    /\ last' = [op |-> "create_new_text_file", request |-> request,
                ret |-> create_new_text_file(fs, request).result]
    /\ NamingUnchanged

RenameTextFile(request) ==
    /\ Len(execLog) < MaxNamingOps
    /\ fs' = rename_text_file(fs, request).files
    /\ execLog' = Append(execLog, [request |-> request,
                                   result |-> rename_text_file(fs, request).result])
    /\ last' = [op |-> "rename_text_file", request |-> request,
                ret |-> rename_text_file(fs, request).result]
    /\ NamingUnchanged

NamingSpecInit ==
    /\ queue = <<>>
    /\ shutdown = FALSE
    /\ workerPc = "ready"
    /\ workerEnv = None
    /\ \E existing \in SUBSET SeedPaths : fs = [p \in existing |-> OldText]
    /\ wf = WorkflowInit
    /\ enqLog = <<>>
    /\ execLog = <<>>
    /\ atShutdown = <<>>
    /\ last = NoCall
    /\ coord = CoordInit
    /\ marks = <<>>
    /\ wfLock = None
    /\ markTimes = <<>>
    /\ dropped = None
    /\ parked = FALSE
    /\ poisoned = NoPoison
    /\ InitCallers(Threads)

\* the CreateFileRequest values of the run
NamingCreateRequests ==
    {CreateEvent(Root, value, now).request : value \in NamingTitles, now \in Nows}

NamingNext ==
    \/ \E request \in NamingCreateRequests : CreateNewTextFile(request)
    \/ \E path \in DOMAIN fs \cup SeedPaths, value \in NamingTitles, now \in Nows :
          RenameTextFile(RenameEvent(path, value, now).request)

NamingSpec == NamingSpecInit /\ [][NamingNext]_vars

---------------------------------------------------------------------------
(* sanitize_filename_stem called directly *)

StemAlphabet == ReservedChars \cup ControlChars \cup WideChars \cup {"a", "_", " "}

ShortInputs == UNION {[1..n -> StemAlphabet] : n \in 0..MaxShort}

\* a long input: "W" first, one chosen character at position j, "a" elsewhere
Fill(len, j, ch) == [i \in 1..len |-> IF i = j THEN ch ELSE IF i = 1 THEN "W" ELSE "a"]

LongInputs ==
    {Fill(len, j, ch) : len \in (MAX_FILE_STEM_CHARS - 1)..(MAX_FILE_STEM_CHARS + MaxOver),
                        j \in (MAX_FILE_STEM_CHARS - 1)..(MAX_FILE_STEM_CHARS + MaxOver),
                        ch \in StemAlphabet}

StemInputs == ShortInputs \cup LongInputs

SanitizeFilenameStem(raw) ==
    /\ last' = [op |-> "sanitize_filename_stem", raw |-> raw, ret |-> sanitize_filename_stem(raw)]
    /\ UNCHANGED <<queue, shutdown, workerPc, workerEnv, fs, wf, pc, call, chan, ret, ncalls,
                   enqLog, execLog, atShutdown, coord, marks, wfLock, markTimes, dropped, parked, poisoned>>

SanitizeSpecInit == InitCommon /\ InitCallers(Threads)

SanitizeNext == \E raw \in StemInputs : SanitizeFilenameStem(raw)

SanitizeSpec == SanitizeSpecInit /\ [][SanitizeNext]_vars

---------------------------------------------------------------------------
(* Properties of the autosave coordinator: dropping, popping, retargeting *)

\* C21: when on_edit_path_changed(None) is called while a payload is pending,
\* the payload and the timer are dropped, and until mark_user_edit is called
\* again pop_due_payload returns nothing at every instant.
C21_DroppedEditIsNeverWritten ==
    /\ [][(/\ coord.pending_payload # None
            /\ last'.op = "on_edit_path_changed"
            /\ OnEditPathChanged(None))
           => /\ coord'.pinned_time = None
              /\ coord'.pending_payload = None]_vars
    /\ [](dropped # None =>
             /\ coord.pinned_time = None
             /\ coord.pending_payload = None
             /\ \A now \in CoordInstants :
                   pop_due_payload(coord, now, EDITOR_AUTOSAVE_IDLE_DURATION).ret = None)
    /\ [][(dropped # None /\ last'.op = "pop_due_payload")
           => /\ last'.ret.value = None
              /\ dropped' = dropped]_vars

C21_Witness ==
    /\ dropped # None
    /\ Len(marks) >= 1
    /\ dropped = Some(marks[Len(marks)])
    /\ last.op = "pop_due_payload"
    /\ last.ret.value = None
    /\ coord.pending_payload = None

\* C22: pop_due_payload(now, idle) returns the pending payload and disarms the
\* timer exactly when a timer is armed and now minus the pinned time is at least
\* idle; the pinned time is the instant of the first mark_user_edit since the
\* timer was last disarmed; otherwise nothing is returned and pinned time and
\* pending payload stay as they are.
C22_PopDueExactlyWhenIdle ==
    /\ [](coord.pinned_time # None =>
             /\ Len(markTimes) >= 1
             /\ coord.pinned_time = Some(markTimes[1]))
    /\ [][\A now \in CoordInstants :
            (/\ last'.op = "pop_due_payload"
             /\ PopDuePayload(now, EDITOR_AUTOSAVE_IDLE_DURATION))
            => IF /\ coord.pinned_time # None
                  /\ now - Unwrap(coord.pinned_time) >= EDITOR_AUTOSAVE_IDLE_DURATION
               THEN /\ last'.ret.value # None
                    /\ last'.ret.value = coord.pending_payload
                    /\ coord'.pinned_time = None
                    /\ coord'.pending_payload = None
               ELSE /\ last'.ret.value = None
                    /\ coord'.pinned_time = coord.pinned_time
                    /\ coord'.pending_payload = coord.pending_payload]_vars

C22_Witness ==
    /\ Len(markTimes) >= 2
    /\ markTimes[Len(markTimes)] > markTimes[1]
    /\ last.op = "pop_due_payload"
    /\ last.ret.value = Some(marks[Len(marks)])
    /\ coord.pinned_time = None
    /\ coord.pending_payload = None

\* C23: on_edit_path_changed(Some(p)) with a payload pending changes only the
\* path of that payload to p (text and pinned time stay); with nothing pending
\* it changes nothing.
C23_RetargetChangesOnlyPath ==
    [][\A p \in CoordPaths :
         (/\ last'.op = "on_edit_path_changed"
          /\ OnEditPathChanged(Some(p)))
         => IF coord.pending_payload # None
            THEN /\ coord'.pending_payload =
                       Some([current_path |-> p,
                             editor_text |-> Unwrap(coord.pending_payload).editor_text])
                 /\ coord'.pinned_time = coord.pinned_time
                 /\ coord'.last_delta_trace_secs = coord.last_delta_trace_secs
            ELSE coord' = coord]_vars

C23_Witness ==
    /\ last.op = "on_edit_path_changed"
    /\ coord.pending_payload # None
    /\ Len(marks) >= 1
    /\ Unwrap(coord.pending_payload).current_path # marks[Len(marks)].current_path
    /\ Unwrap(coord.pending_payload).editor_text = marks[Len(marks)].editor_text
    /\ Unwrap(coord.pending_payload).editor_text # <<>>
    /\ coord.pinned_time = Some(markTimes[1])

---------------------------------------------------------------------------
(* Properties of the atomic writer *)

WriteReturned(w) ==
    /\ pc[w] # "idle"
    /\ pc'[w] = "idle"
    /\ last'.op = "save_editor_text_payload_atomic"

\* C24: when the atomic write returns an error, at whatever stage, a target
\* file that existed before the call has exactly the content it had before.
C24_ErrorKeepsTarget ==
    [][\A w \in Writers :
         (/\ WriteReturned(w)
          /\ ~last'.ret.ok
          /\ call[w].before # None)
         => /\ Exists(fs', call[w].path)
            /\ fs'[call[w].path] = Unwrap(call[w].before)]_vars

\* C25: from the start of an atomic write on, at every step and after a crash
\* between two steps, a target that existed before holds its complete prior
\* content or the complete new bytes, and no step changes a file other than
\* the target and its sibling temp file.
C25_TargetAlwaysComplete ==
    /\ [](\A w \in Writers :
            (call[w].op = "save_editor_text_payload_atomic" /\ call[w].before # None)
            => /\ Exists(fs, call[w].path)
               /\ fs[call[w].path] \in {Unwrap(call[w].before), call[w].bytes})
    /\ [][\A w \in Writers : \A p \in DOMAIN fs :
            (/\ call'[w].op = "save_editor_text_payload_atomic"
             /\ p # call'[w].path
             /\ p # editor_temp_path_for_atomic_write(call'[w].path))
            => /\ Exists(fs', p)
               /\ fs'[p] = fs[p]]_vars

\* C26: an autosave dispatched in Edit on path P whose write succeeds returns
\* true and leaves at P exactly the editor text of the payload, the previous
\* content replaced as a whole, and no <name>.tmp beside it.
C26_AutosaveWritesExactText ==
    [][\A w \in Writers :
         (/\ WriteReturned(w)
          /\ last'.ret.ok)
         => /\ wf.state = "Edit"
            /\ wf.current_edit_path = Some(call[w].payload.current_path)
            /\ AutosaveReturn(last'.ret) = OkVal(TRUE)
            /\ last'.ret.path = call[w].payload.current_path
            /\ Exists(fs', call[w].payload.current_path)
            /\ fs'[call[w].payload.current_path] = call[w].payload.editor_text
            /\ ~Exists(fs', editor_temp_path_for_atomic_write(call[w].payload.current_path))
            /\ fs' = write_editor_text_atomic(fs, call[w].payload.current_path,
                                              call[w].payload.editor_text).files]_vars

C26_Witness ==
    \E w \in Writers :
       /\ pc[w] = "idle"
       /\ last.op = "save_editor_text_payload_atomic"
       /\ last.ret.ok
       /\ call[w].op = "save_editor_text_payload_atomic"
       /\ call[w].before = Some(OldText)
       /\ call[w].payload.editor_text = <<"\"", "\n">>
       /\ fs[call[w].payload.current_path] = call[w].payload.editor_text
       /\ ~Exists(fs, editor_temp_path_for_atomic_write(call[w].payload.current_path))

---------------------------------------------------------------------------
(* Properties of the naming resolver *)

\* <stem>.txt for k = 1, <stem>_k.txt for k = 2, 3, ...
Candidate(dir, stem, k) == Join(dir, TxtName(stem, k))

Suffixes == 1..(Cardinality(DOMAIN fs) + 1)

\* C27: create_new_text_file returns <stem>.txt when that name is free, otherwise
\* the lowest-numbered free <stem>_k.txt of the daily directory; the file is
\* created empty and every file that existed before is unchanged.
C27_CreateLowestFreeName ==
    [][last'.op = "create_new_text_file" =>
         LET request == last'.request
             dir == daily_directory(request.user_document_dir, request.now)
             stem == request.singleline_value
         IN  /\ last'.ret.ok
             /\ \E k \in Suffixes :
                   /\ last'.ret.path = Candidate(dir, stem, k)
                   /\ ~Exists(fs, Candidate(dir, stem, k))
                   /\ \A j \in 1..(k - 1) : Exists(fs, Candidate(dir, stem, j))
             /\ DOMAIN fs' = DOMAIN fs \cup {last'.ret.path}
             /\ fs'[last'.ret.path] = <<>>
             /\ \A p \in DOMAIN fs : fs'[p] = fs[p]]_vars

C27_Witness ==
    /\ last.op = "create_new_text_file"
    /\ last.ret.ok
    /\ last.ret.path = Candidate(daily_directory(Root, FixedNow), CommonTitle, 3)
    /\ fs[last.ret.path] = <<>>
    /\ Exists(fs, Candidate(daily_directory(Root, FixedNow), CommonTitle, 1))
    /\ fs[Candidate(daily_directory(Root, FixedNow), CommonTitle, 1)] = OldText
    /\ Exists(fs, Candidate(daily_directory(Root, FixedNow), CommonTitle, 2))
    /\ fs[Candidate(daily_directory(Root, FixedNow), CommonTitle, 2)] = OldText

\* C28: a rename whose resolved target is the current path returns the current
\* path and changes nothing in the file system, also when the current name is
\* <stem>_k.txt and all lower-numbered candidates exist.
C28_RenameToOwnNameIsNoop ==
    [][last'.op = "rename_text_file" =>
         LET request == last'.request
             current_path == request.current_path
             stem == request.singleline_value
         IN  (/\ Exists(fs, current_path)
              /\ \E k \in Suffixes :
                    /\ current_path = Candidate(current_path.dir, stem, k)
                    /\ \A j \in 1..(k - 1) : Exists(fs, Candidate(current_path.dir, stem, j)))
             => /\ last'.ret = Ok("Renamed", current_path)
                /\ fs' = fs]_vars

C28_Witness ==
    /\ Len(execLog) = 2
    /\ execLog[1] = execLog[2]
    /\ last.op = "rename_text_file"
    /\ last.ret.ok
    /\ last.ret.path = last.request.current_path
    /\ last.ret.path = Candidate(daily_directory(Root, FixedNow), CommonTitle, 3)
    /\ last.request.singleline_value = CommonTitle
    /\ Exists(fs, last.ret.path)

\* C29: a successful rename moves the file to the lowest-numbered candidate for
\* the new stem in the file's own parent directory that does not exist or is
\* the current path; every other file is unchanged, nothing is overwritten,
\* and the timestamp of the request does not move the file to another directory.
C29_RenameNeverOverwrites ==
    [][(last'.op = "rename_text_file" /\ last'.ret.ok) =>
         LET request == last'.request
             current_path == request.current_path
             stem == request.singleline_value
             target == last'.ret.path
         IN  /\ Exists(fs, current_path)
             /\ target.dir = current_path.dir
             /\ \E k \in Suffixes :
                   /\ target = Candidate(current_path.dir, stem, k)
                   /\ ~Exists(fs, target) \/ target = current_path
                   /\ \A j \in 1..(k - 1) :
                         /\ Exists(fs, Candidate(current_path.dir, stem, j))
                         /\ Candidate(current_path.dir, stem, j) # current_path
             /\ DOMAIN fs' = (DOMAIN fs \ {current_path}) \cup {target}
             /\ fs'[target] = fs[current_path]
             /\ \A p \in DOMAIN fs \ {current_path} : fs'[p] = fs[p]]_vars

C29_Witness ==
    /\ last.op = "rename_text_file"
    /\ last.ret.ok
    /\ last.request.now = NextDay
    /\ last.request.current_path = Candidate(daily_directory(Root, FixedNow), CommonTitle, 1)
    /\ last.ret.path = Candidate(daily_directory(Root, FixedNow), <<"b">>, 2)
    /\ ~Exists(fs, last.request.current_path)
    /\ fs[last.ret.path] = OldText
    /\ Exists(fs, Candidate(daily_directory(Root, FixedNow), <<"b">>, 1))
    /\ Exists(fs, Candidate(daily_directory(Root, NextDay), CommonTitle, 1))

---------------------------------------------------------------------------
(* Properties of sanitize_filename_stem *)

Min(a, b) == IF a <= b THEN a ELSE b

\* C30: sanitize_filename_stem replaces each of < > : " / \ | ? * and each
\* control character by '_', keeps every other character, multi-byte ones
\* included, in order, and returns the first min(n, 64) code points of that.
C30_SanitizeReplacesAndTruncates ==
    last.op = "sanitize_filename_stem" =>
       /\ Len(last.ret) = Min(Len(last.raw), 64)
       /\ \A i \in 1..Len(last.ret) :
             last.ret[i] = IF \/ last.raw[i] \in {"<", ">", ":", "\"", "/", "\\", "|", "?", "*"}
                              \/ last.raw[i] \in ControlChars
                           THEN "_"
                           ELSE last.raw[i]

C30_Witness ==
    /\ last.op = "sanitize_filename_stem"
    /\ Len(last.raw) = 66
    /\ Len(last.ret) = 64
    /\ last.raw[1] \in WideChars
    /\ last.ret[1] = last.raw[1]
    /\ last.raw[64] = "*"
    /\ last.ret[64] = "_"

---------------------------------------------------------------------------
(* Title feedback: stem_from_singleline_value and the forced stem after a
   create or a rename *)

\* Path::file_stem: the file name up to its last dot (the whole name when the
\* only dot is the first character or there is none)
LastDot(name) ==
    LET dots == {i \in 2..Len(name) : name[i] = "."}
    IN  IF dots = {} THEN 0 ELSE CHOOSE i \in dots : \A j \in dots : j <= i

path_stem(path) ==
    IF path.name = <<>> THEN None
    ELSE IF LastDot(path.name) = 0 THEN Some(path.name)
    ELSE Some(SubSeq(path.name, 1, LastDot(path.name) - 1))

forced_singleline_stem_after_create(singleline_value, created_path, now) ==
    IF path_stem(created_path) = None THEN None
    ELSE LET resolved_stem == Unwrap(path_stem(created_path))
             base_stem == stem_from_singleline_value(singleline_value, now)
             had_collision == resolved_stem # base_stem
             had_invalid_chars ==
                 /\ singleline_value # <<>>
                 /\ \E i \in 1..Len(singleline_value) : invalid_filename_char(singleline_value[i])
         IN  IF had_collision \/ had_invalid_chars THEN Some(resolved_stem) ELSE None

forced_singleline_stem_after_rename(singleline_value, renamed_path, now) ==
    IF path_stem(renamed_path) = None THEN None
    ELSE LET resolved_stem == Unwrap(path_stem(renamed_path))
             base_stem == stem_from_singleline_value(singleline_value, now)
             had_collision == resolved_stem # base_stem
             had_invalid_chars ==
                 /\ singleline_value # <<>>
                 /\ \E i \in 1..Len(singleline_value) : invalid_filename_char(singleline_value[i])
         IN  IF had_collision \/ had_invalid_chars THEN Some(resolved_stem) ELSE None

\* a title one character longer than a stem can be
OverlongTitle == [i \in 1..(MAX_FILE_STEM_CHARS + 1) |-> "a"]

\* the titles entered: empty, plain, with a reserved character, with a dot,
\* too long, and the text of the fallback stem of fixed_now() itself
TitleValues ==
    {<<>>, CommonTitle, <<"a", ":">>, <<"a", ".", "b">>, OverlongTitle,
     notitle_stem(FixedNow)}

TitleSeedPaths ==
    {Join(daily_directory(Root, FixedNow), TxtName(CommonTitle, 1)),
     Join(daily_directory(Root, FixedNow), TxtName(<<"a", "_">>, 1))}

StemFromSinglelineValue(value, now) ==
    /\ last' = [op |-> "stem_from_singleline_value", value |-> value, now |-> now,
                ret |-> stem_from_singleline_value(value, now)]
    /\ UNCHANGED <<queue, shutdown, workerPc, workerEnv, fs, wf, pc, call, chan, ret, ncalls,
                   enqLog, execLog, atShutdown, coord, marks, wfLock, markTimes, dropped, parked, poisoned>>

\* the caller passes the title it sent, the path it got back and the same clock reading
ForcedSinglelineStemAfterCreate ==
    /\ last.op = "create_new_text_file"
    /\ last.ret.ok
    /\ last' = [op |-> "forced_singleline_stem_after_create",
                value |-> last.request.singleline_value,
                path |-> last.ret.path,
                now |-> last.request.now,
                ret |-> forced_singleline_stem_after_create(last.request.singleline_value,
                                                            last.ret.path, last.request.now)]
    /\ UNCHANGED <<queue, shutdown, workerPc, workerEnv, fs, wf, pc, call, chan, ret, ncalls,
                   enqLog, execLog, atShutdown, coord, marks, wfLock, markTimes, dropped, parked, poisoned>>

ForcedSinglelineStemAfterRename ==
    /\ last.op = "rename_text_file"
    /\ last.ret.ok
    /\ last' = [op |-> "forced_singleline_stem_after_rename",
                value |-> last.request.singleline_value,
                path |-> last.ret.path,
                now |-> last.request.now,
                ret |-> forced_singleline_stem_after_rename(last.request.singleline_value,
                                                            last.ret.path, last.request.now)]
    /\ UNCHANGED <<queue, shutdown, workerPc, workerEnv, fs, wf, pc, call, chan, ret, ncalls,
                   enqLog, execLog, atShutdown, coord, marks, wfLock, markTimes, dropped, parked, poisoned>>

TitleSpecInit ==
    /\ queue = <<>>
    /\ shutdown = FALSE
    /\ workerPc = "ready"
    /\ workerEnv = None
    /\ \E existing \in SUBSET TitleSeedPaths : fs = [p \in existing |-> OldText]
    /\ wf = WorkflowInit
    /\ enqLog = <<>>
    /\ execLog = <<>>
    /\ atShutdown = <<>>
    /\ last = NoCall
    /\ coord = CoordInit
    /\ marks = <<>>
    /\ wfLock = None
    /\ markTimes = <<>>
    /\ dropped = None
    /\ parked = FALSE
    /\ poisoned = NoPoison
    /\ InitCallers(Threads)

\* the CreateFileRequest values of the run
TitleCreateRequests == {CreateEvent(Root, value, FixedNow).request : value \in TitleValues}

TitleNext ==
    \/ \E value \in TitleValues, now \in Nows : StemFromSinglelineValue(value, now)
    \/ \E request \in TitleCreateRequests : CreateNewTextFile(request)
    \/ \E path \in DOMAIN fs, value \in TitleValues :
          RenameTextFile(RenameEvent(path, value, FixedNow).request)
    \/ ForcedSinglelineStemAfterCreate
    \/ ForcedSinglelineStemAfterRename

TitleSpec == TitleSpecInit /\ [][TitleNext]_vars

RECURSIVE Num(_)
\* the number a sequence of decimal digits reads as
Num(digits) ==
    IF digits = <<>> THEN 0
    ELSE 10 * Num(SubSeq(digits, 1, Len(digits) - 1))
           + (CHOOSE d \in 0..9 : DigitChars[d + 1] = digits[Len(digits)])

\* "notitle-" followed by exactly 17 ASCII digits that read as the timestamp
IsFallbackStem(stem, now) ==
    /\ Len(stem) = 8 + 17
    /\ SubSeq(stem, 1, 8) = <<"n", "o", "t", "i", "t", "l", "e", "-">>
    /\ \A i \in 9..25 : \E d \in 1..10 : stem[i] = DigitChars[d]
    /\ Num(SubSeq(stem, 9, 12)) = now.year
    /\ Num(SubSeq(stem, 13, 14)) = now.month
    /\ Num(SubSeq(stem, 15, 16)) = now.day
    /\ Num(SubSeq(stem, 17, 18)) = now.hour
    /\ Num(SubSeq(stem, 19, 20)) = now.minute
    /\ Num(SubSeq(stem, 21, 22)) = now.second
    /\ Num(SubSeq(stem, 23, 25)) = now.milli

\* C31 as stated: stem_from_singleline_value returns the fallback stem
\* ("notitle-" and the 17 digits of the timestamp) if and only if the title is
\* empty, and for a non-empty title the sanitized title, which is never empty.
C31_FallbackIffEmptyTitle ==
    last.op = "stem_from_singleline_value" =>
        /\ IsFallbackStem(last.ret, last.now) <=> (last.value = <<>>)
        /\ last.value # <<>> =>
              /\ last.ret = sanitize_filename_stem(last.value)
              /\ last.ret # <<>>

\* C31, amended: an empty title gives the fallback stem ("notitle-" and the 17
\* digits of the timestamp); a non-empty title gives its sanitized text, which
\* is never empty, and that text is the fallback stem only when the title
\* itself already reads so.
C31_FallbackForEmptyTitle ==
    last.op = "stem_from_singleline_value" =>
        /\ last.value = <<>> => IsFallbackStem(last.ret, last.now)
        /\ last.value # <<>> =>
              /\ last.ret = sanitize_filename_stem(last.value)
              /\ last.ret # <<>>
              /\ IsFallbackStem(last.ret, last.now) => IsFallbackStem(last.value, last.now)

C31_Witness ==
    /\ last.op = "stem_from_singleline_value"
    /\ last.value # <<>>
    /\ IsFallbackStem(last.value, last.now)
    /\ last.ret = last.value

\* C32 as stated: after a create or a rename the forced stem is the stem of the
\* file on disk whenever that stem differs from the title entered, and nothing
\* is returned only when the title and the stem on disk are identical.
C32_ForcedStemWheneverTitleDiffers ==
    last.op \in {"forced_singleline_stem_after_create", "forced_singleline_stem_after_rename"} =>
        /\ last.path \in DOMAIN fs
        /\ path_stem(last.path) # Some(last.value) => last.ret = path_stem(last.path)
        /\ last.ret = None => path_stem(last.path) = Some(last.value)

---------------------------------------------------------------------------
(* The workflow parked in New *)

\* C33 as stated: once a throttled try_create_from_neutral has parked the
\* workflow in New, no step takes it out of New except a
\* set_edit_from_open_file or a reset_startup_to_neutral: whatever else is
\* called or completes leaves the state New.
C33_ParkedInNewUntilForced ==
    [][parked =>
          \/ wf'.state = "New"
          \/ last'.op \in {"set_edit_from_open_file", "reset_startup_to_neutral"}]_vars

---------------------------------------------------------------------------
(* The autosave ticking thread beside the thread that raises the UI intents:
   spawn_editor_autosave_worker, coordinator, workflow and dispatcher together *)

UiThread == "ui"
Ticker == "ticker"
TickThreads == {UiThread, Ticker}

\* mark_user_edit is called with instants that leave room for the idle time to elapse
MarkInstants == {now \in CoordInstants : now + EDITOR_AUTOSAVE_IDLE_DURATION \in CoordInstants}

\* the payload the ticking thread holds between pop_due_payload and its
\* try_autosave_in_edit call
PoppedPayload == call[Ticker].payload

\* autosave writes still owed to payloads already marked or popped
Owed ==
    (IF coord.pending_payload # None THEN 1 ELSE 0) + (IF pc[Ticker] = "popped" THEN 1 ELSE 0)

\* faulty variant: a payload whose write failed or was skipped is queued again
requeue_unless_saved(st, payload, result) ==
    IF result.ok /\ result.value = TRUE THEN st
    ELSE [st EXCEPT !.pending_payload = Some(payload), !.pinned_time = Some(0)]

\* the coordinator after the ticking thread's match on the result of
\* try_autosave_in_edit: each arm only writes a trace line
after_autosave_result(st, payload, result) == st

\* file-opened(path): set_edit_from_open_file, then on_edit_path_changed(Some(path))
UiOpenFile(path) ==
    /\ pc[UiThread] = "idle"
    /\ wf' = ForceEdit(wf, path)
    /\ StaysParked
    /\ pc' = [pc EXCEPT ![UiThread] = "notify"]
    /\ call' = [call EXCEPT ![UiThread] = [op |-> "on_edit_path_changed", path |-> Some(path)]]
    /\ marks' = <<>>
    /\ markTimes' = <<>>
    /\ UNCHANGED <<queue, shutdown, workerPc, workerEnv, fs, chan, ret, ncalls, enqLog, execLog,
                   atShutdown, last, coord, wfLock, dropped, poisoned>>

\* the editor is left: transition_edit_to_neutral, then on_edit_path_changed(None)
UiLeaveEdit ==
    /\ pc[UiThread] = "idle"
    /\ InEdit(wf)
    /\ wf' = EditToNeutral(wf)
    /\ StaysParked
    /\ ret' = [ret EXCEPT ![UiThread] = OkVal(TRUE)]
    /\ pc' = [pc EXCEPT ![UiThread] = "notify"]
    /\ call' = [call EXCEPT ![UiThread] = [op |-> "on_edit_path_changed", path |-> None]]
    /\ marks' = <<>>
    /\ markTimes' = <<>>
    /\ UNCHANGED <<queue, shutdown, workerPc, workerEnv, fs, chan, ncalls, enqLog, execLog,
                   atShutdown, last, coord, wfLock, dropped, poisoned>>

\* the on_edit_path_changed call that follows a change of the edit path
UiNotifyPath ==
    /\ pc[UiThread] = "notify"
    /\ coord' = on_edit_path_changed(coord, call[UiThread].path)
    /\ dropped' = IF call[UiThread].path = None /\ coord.pending_payload # None
                  THEN coord.pending_payload ELSE dropped
    /\ last' = [op |-> "on_edit_path_changed", ret |-> OkVal(None)]
    /\ pc' = [pc EXCEPT ![UiThread] = "idle"]
    /\ call' = [call EXCEPT ![UiThread] = NoCall]
    /\ UNCHANGED <<queue, shutdown, workerPc, workerEnv, fs, wf, chan, ret, ncalls, enqLog,
                   execLog, atShutdown, marks, wfLock, markTimes, parked, poisoned>>

\* body-text-changed: mark_user_edit with the file being edited and the editor's text
UiBodyTextChanged(text, now) ==
    /\ pc[UiThread] = "idle"
    /\ wf.state = "Edit"
    /\ wf.current_edit_path # None
    /\ coord.pending_payload = None => Started + Owed < MaxDispatch
    /\ MarkUserEdit([current_path |-> Unwrap(wf.current_edit_path), editor_text |-> text], now)

\* one round of the ticking thread's loop up to the let-else: sleep, pop_due_payload
TickPop(now) ==
    /\ pc[Ticker] = "idle"
    /\ IF pop_due_payload(coord, now, EDITOR_AUTOSAVE_IDLE_DURATION).ret = None
       THEN UNCHANGED <<pc, call>>
       ELSE /\ pc' = [pc EXCEPT ![Ticker] = "popped"]
            /\ call' = [call EXCEPT ![Ticker] =
                          [op |-> "try_autosave_in_edit",
                           payload |-> Unwrap(pop_due_payload(coord, now,
                                                              EDITOR_AUTOSAVE_IDLE_DURATION).ret)]]
    /\ coord' = pop_due_payload(coord, now, EDITOR_AUTOSAVE_IDLE_DURATION).state
    /\ UNCHANGED <<queue, shutdown, workerPc, workerEnv, fs, wf, chan, ret, ncalls, enqLog,
                   execLog, atShutdown, marks, wfLock, markTimes, dropped, parked, poisoned>>
    /\ last' = [op |-> "pop_due_payload",
                ret |-> OkVal(pop_due_payload(coord, now, EDITOR_AUTOSAVE_IDLE_DURATION).ret)]

\* the ticking thread polls at an instant at which the pending payload is due
TickPopDue ==
    \E now \in CoordInstants :
        /\ pop_due_payload(coord, now, EDITOR_AUTOSAVE_IDLE_DURATION).ret # None
        /\ TickPop(now)

\* try_autosave_in_edit(payload) of the ticking thread, up to dispatch_blocking
TickAutosaveBegin ==
    /\ pc[Ticker] = "popped"
    /\ IF ~AutosaveApplies(wf, PoppedPayload)
       THEN /\ pc' = [pc EXCEPT ![Ticker] = "skipped"]
            /\ ret' = [ret EXCEPT ![Ticker] = OkVal(FALSE)]
            /\ coord' = after_autosave_result(coord, PoppedPayload, OkVal(FALSE))
            /\ UNCHANGED <<call, chan, ncalls>>
       ELSE /\ Dispatches(Ticker, "try_autosave_in_edit", AutoSaveEvent(PoppedPayload))
            /\ UNCHANGED <<ret, coord>>
    /\ UNCHANGED <<queue, shutdown, workerPc, workerEnv, fs, wf, enqLog, execLog,
                   atShutdown, last, marks, wfLock, markTimes, dropped, parked, poisoned>>

\* the Ok(false) arm: the trace line and debug_assert!(false, ...), which
\* panics where debug assertions are compiled in
TickSkipped(debug_assertions) ==
    /\ pc[Ticker] = "skipped"
    /\ pc' = [pc EXCEPT ![Ticker] = IF debug_assertions THEN "panicked" ELSE "idle"]
    /\ call' = [call EXCEPT ![Ticker] = NoCall]
    /\ UNCHANGED <<queue, shutdown, workerPc, workerEnv, fs, wf, chan, ret, ncalls, enqLog,
                   execLog, atShutdown, last, coord, marks, wfLock, markTimes, dropped, parked, poisoned>>

\* try_autosave_in_edit from the response on, and the Ok(true) and Err arms
TickAutosaveComplete ==
    /\ Received(Ticker)
    /\ call[Ticker].op = "try_autosave_in_edit"
    /\ ret' = [ret EXCEPT ![Ticker] = AutosaveReturn(ResponseOf(Ticker))]
    /\ coord' = after_autosave_result(coord, call[Ticker].event.payload,
                                      AutosaveReturn(ResponseOf(Ticker)))
    /\ Finished(Ticker)
    /\ UNCHANGED <<queue, shutdown, workerPc, workerEnv, fs, wf, ncalls, enqLog, execLog,
                   atShutdown, last, marks, wfLock, markTimes, dropped, parked, poisoned>>

\* process_event when the first file-system call of the operation fails
process_event_io_error(files, event) == [result |-> Err("Other"), files |-> files]

\* one iteration of worker_loop in which the file system refuses the operation
WorkerServeIoError ==
    /\ workerPc = "ready"
    /\ queue # <<>>
    /\ LET envelope == Unwrap(pop_front(queue).envelope)
           done == process_event_io_error(fs, envelope.event)
           tx == envelope.response_tx
       IN  /\ queue' = pop_front(queue).rest
           /\ fs' = done.files
           /\ chan' = IF ReceiverAlive(tx)
                      THEN [chan EXCEPT ![tx[1]] = Some([result |-> done.result, of |-> tx])]
                      ELSE chan
    /\ UNCHANGED <<shutdown, workerPc, workerEnv, wf, pc, call, ret, ncalls, enqLog, execLog,
                   atShutdown, last, coord, marks, wfLock, markTimes, dropped, parked, poisoned>>

TickSpecInit ==
    /\ queue = <<>>
    /\ shutdown = FALSE
    /\ workerPc = "ready"
    /\ workerEnv = None
    /\ fs = [p \in {ExistingPath} |-> <<>>]
    /\ wf = WorkflowInit
    /\ enqLog = <<>>
    /\ execLog = <<>>
    /\ atShutdown = <<>>
    /\ last = NoCall
    /\ coord = CoordInit
    /\ marks = <<>>
    /\ wfLock = None
    /\ markTimes = <<>>
    /\ dropped = None
    /\ parked = FALSE
    /\ poisoned = NoPoison
    /\ InitCallers(TickThreads)

\* the steps in which no write fails
TickSteps ==
    \/ \E path \in CoordPaths : UiOpenFile(path)
    \/ UiLeaveEdit
    \/ UiNotifyPath
    \/ \E text \in CoordTexts, now \in MarkInstants : UiBodyTextChanged(text, now)
    \/ \E now \in CoordInstants : TickPop(now)
    \/ TickAutosaveBegin
    \/ \E debug_assertions \in BOOLEAN : TickSkipped(debug_assertions)
    \/ DispatchEnqueue(Ticker)
    \/ WorkerServe
    \/ TickAutosaveComplete

TickNext ==
    \/ TickSteps
    \/ WorkerServeIoError

TickSpec == TickSpecInit /\ [][TickNext]_vars

\* worker_loop takes the front envelope: the step of WorkerServe as far as the
\* queue is concerned
WorkerTakes ==
    /\ workerPc = "ready"
    /\ queue # <<>>
    /\ queue' = pop_front(queue).rest
    /\ UNCHANGED pc

\* The ticking thread, once started, loops for ever: it polls every
\* EDITOR_AUTOSAVE_TICK_DURATION while the clock advances, so a payload that
\* stays pending is polled at an instant at which it is due, and the thread goes
\* on through try_autosave_in_edit; the worker thread takes what is queued.
TickFairness ==
    /\ WF_<<pc, queue>>(TickPopDue)
    /\ WF_<<pc, queue>>(TickAutosaveBegin)
    /\ WF_<<pc, queue>>(\E debug_assertions \in BOOLEAN : TickSkipped(debug_assertions))
    /\ WF_<<pc, queue>>(DispatchEnqueue(Ticker))
    /\ WF_<<pc, queue>>(WorkerTakes)
    /\ WF_<<pc, queue>>(TickAutosaveComplete)

\* runs in which no write fails
FairTickSpec == TickSpecInit /\ [][TickSteps]_vars /\ TickFairness

---------------------------------------------------------------------------
(* Properties of the ticking thread *)

\* the AutoSave envelopes waiting in the dispatcher's queue
AutoSaveQueued == {i \in 1..Len(queue) : queue[i].event.kind = "AutoSave"}

\* C34: when pop_due_payload hands a payload to the ticking thread the
\* coordinator is left with no pending payload and no pinned time; whether
\* the autosave that follows succeeds, fails or is skipped, its outcome leaves
\* the coordinator as it is (nothing is queued again), the payload is
\* dispatched at most once, and while nothing is pending no poll returns a
\* payload: nothing more is written before the next mark_user_edit.
C34_PoppedPayloadIsNeverRequeued ==
    /\ [][(pc[Ticker] = "idle" /\ pc'[Ticker] = "popped")
           => /\ coord'.pending_payload = None
              /\ coord'.pinned_time = None]_vars
    /\ [][(pc[Ticker] \in {"popped", "recv"} /\ pc'[Ticker] \in {"skipped", "idle"})
           => coord' = coord]_vars
    /\ [](/\ Cardinality(AutoSaveQueued) <= 1
          /\ AutoSaveQueued # {} => pc[Ticker] = "recv"
          /\ \A i \in AutoSaveQueued : queue[i].event.payload = call[Ticker].event.payload)
    /\ [](coord.pending_payload = None =>
             /\ coord.pinned_time = None
             /\ \A now \in CoordInstants :
                   pop_due_payload(coord, now, EDITOR_AUTOSAVE_IDLE_DURATION).ret = None)

\* a failed write has been reported to the ticking thread and nothing is pending
C34_Witness ==
    /\ ~ret[Ticker].ok
    /\ pc[Ticker] = "idle"
    /\ coord.pending_payload = None
    /\ coord.pinned_time = None
    /\ marks # <<>>
    /\ marks[Len(marks)].current_path \in DOMAIN fs
    /\ fs[marks[Len(marks)].current_path] # marks[Len(marks)].editor_text

Written(payload) ==
    /\ payload.current_path \in DOMAIN fs
    /\ fs[payload.current_path] = payload.editor_text

\* a payload has been marked while the workflow was in Edit on its path, and
\* the edit path has not changed since
MarkedOnEditPath ==
    /\ pc[UiThread] = "idle"
    /\ marks # <<>>
    /\ AutosaveApplies(wf, marks[Len(marks)])

\* the payload is the latest one so marked
LatestMark(payload) ==
    /\ MarkedOnEditPath
    /\ marks[Len(marks)] = payload

\* the file of the latest mark holds its text
LatestWritten == MarkedOnEditPath /\ Written(marks[Len(marks)])

\* C35: a payload marked while the workflow is in Edit on its path is
\* eventually the content of the file, unless the edit path changes, another
\* edit is marked or the ticking thread has stopped; the ticking thread has at
\* most one write under way, so writes are applied in the order of the pops,
\* and once nothing is pending and the ticking thread is idle the file holds
\* the latest text, also when that text was marked during an earlier write.
C35_LatestEditIsEventuallyWritten ==
    /\ MarkedOnEditPath ~> (~MarkedOnEditPath \/ LatestWritten \/ pc[Ticker] = "panicked")
    /\ [](\A payload \in CoordPayloads :
             (/\ LatestMark(payload)
              /\ coord.pending_payload = None
              /\ pc[Ticker] = "idle") => Written(payload))
    /\ [](pc[Ticker] \in {"idle", "popped", "skipped", "panicked"} => queue = <<>>)

\* a first text has been written and not yet acknowledged while a later text,
\* marked during that write, is pending for the same file
C35_Witness ==
    /\ pc[Ticker] = "recv"
    /\ chan[Ticker] # None
    /\ ResponseOf(Ticker).ok
    /\ coord.pending_payload # None
    /\ LatestMark(Unwrap(coord.pending_payload))
    /\ call[Ticker].event.payload.current_path = Unwrap(coord.pending_payload).current_path
    /\ call[Ticker].event.payload.editor_text # Unwrap(coord.pending_payload).editor_text
    /\ Written(call[Ticker].event.payload)

\* C36: with the UI reporting every change of the edit path to the
\* coordinator, a payload is popped only while the workflow is in Edit on the
\* payload's path, and try_autosave_in_edit never answers Ok(false) to the
\* ticking thread, so the Ok(false) arm of its loop is never entered.
C36_PoppedPayloadAlwaysApplies ==
    /\ [][(pc[Ticker] = "idle" /\ pc'[Ticker] = "popped")
           => AutosaveApplies(wf', call'[Ticker].payload)]_vars
    /\ [](pc[Ticker] \notin {"skipped", "panicked"})

---------------------------------------------------------------------------
(* The workflow over a worker whose file operations may fail *)

\* process_event returns the io::Error of create_new_text_file,
\* rename_text_file or save_editor_text_payload_atomic to the caller
FaultNext == WorkflowNext \/ WorkerServeIoError

FaultSpec == WorkflowSpecInit /\ [][FaultNext]_vars

\* create_new_text_file is the only operation that adds a file without
\* removing one: more files than at the start means a create has succeeded
SomeCreateSucceeded == Cardinality(DOMAIN fs) > Cardinality({ExistingPath})

NoCallInFlight == \A t \in Threads : pc[t] = "idle"

\* C37: the last-create timestamp of the throttle is set only by a create
\* whose dispatch succeeds: with no call in flight, a timestamp that is set
\* means that some create has succeeded; a create whose dispatch returned an
\* error has left it as it was.
C37_TimestampOnlyOnSuccessfulCreate ==
    (NoCallInFlight /\ wf.last_create_event_raised_at # None) => SomeCreateSucceeded

---------------------------------------------------------------------------
(* One caller of the workflow over a worker whose file operations may fail *)

\* the one thread that calls the workflow
Caller == CHOOSE t \in Threads : \A u \in Threads : t <= u

SoloNext ==
    \/ ResetStartupToNeutral(Caller)
    \/ \E path \in OpenPaths : SetEditFromOpenFile(Caller, path)
    \/ TransitionEditToNeutral(Caller)
    \/ \E v \in CreateTitles, now \in Instants : TryCreateBegin(Caller, v, now)
    \/ \E v \in RenameTitles : TryRenameBegin(Caller, v)
    \/ \E payload \in AutoSavePayloads : TryAutosaveBegin(Caller, payload)
    \/ DispatchEnqueue(Caller)
    \/ TryCreateComplete(Caller)
    \/ TryRenameComplete(Caller)
    \/ TryAutosaveComplete(Caller)
    \/ WorkerServe
    \/ WorkerServeIoError

SoloSpec == WorkflowSpecInit /\ [][SoloNext]_vars

\* the dispatched operation of the caller has failed and the caller is about
\* to receive the error
FailedDispatch(op) ==
    /\ Received(Caller)
    /\ call[Caller].op = op
    /\ ~ResponseOf(Caller).ok

\* C39: a workflow method whose dispatched operation fails returns that
\* error and changes nothing more: after a failed create the workflow is in
\* New with no edit path, after a failed rename it is in Edit with the path
\* it had when the rename was requested.
C39_FailedDispatchChangesNothingMore ==
    /\ [][FailedDispatch("try_create_from_neutral") =>
            /\ last' = [op |-> "try_create_from_neutral", ret |-> ResponseOf(Caller)]
            /\ wf' = wf
            /\ wf'.state = "New"
            /\ wf'.current_edit_path = None]_vars
    /\ [][FailedDispatch("try_rename_in_edit") =>
            /\ last' = [op |-> "try_rename_in_edit", ret |-> ResponseOf(Caller)]
            /\ wf' = wf
            /\ wf'.state = "Edit"
            /\ wf'.current_edit_path = Some(call[Caller].event.request.current_path)]_vars

\* a create has failed, the caller has the error and the workflow is in New
C39_Witness ==
    /\ pc[Caller] = "idle"
    /\ last.op = "try_create_from_neutral"
    /\ ~last.ret.ok
    /\ wf.state = "New"
    /\ wf.current_edit_path = None

---------------------------------------------------------------------------
(* Forced transitions while a dispatch is in flight *)

\* the last method to finish was reset_startup_to_neutral and the workflow is
\* as it left it: every create or rename now in flight was dispatched before
\* it, for a later one would have found Neutral and moved to New or returned
ResetStands ==
    /\ last.op = "reset_startup_to_neutral"
    /\ wf.state = "Neutral"
    /\ wf.current_edit_path = None

\* the last method to finish was set_edit_from_open_file and the workflow is
\* in Edit on a path: every create now in flight was dispatched before it
OpenFileStands ==
    /\ last.op = "set_edit_from_open_file"
    /\ wf.state = "Edit"
    /\ wf.current_edit_path # None

\* thread t takes the response of its dispatch in this step
Completes(t, op) ==
    /\ Received(t)
    /\ call[t].op = op
    /\ pc'[t] = "idle"

\* C40: a create or rename that was in flight when set_edit_from_open_file
\* or reset_startup_to_neutral completed does not overwrite the forced
\* transition when its own response arrives: the workflow stays as the forced
\* transition left it.
C40_ForcedTransitionIsNotOverwritten ==
    [][\A t \in Threads :
          (\/ (ResetStands \/ OpenFileStands) /\ Completes(t, "try_create_from_neutral")
           \/ ResetStands /\ Completes(t, "try_rename_in_edit"))
          => wf' = wf]_vars

---------------------------------------------------------------------------
(* Poisoned mutexes *)

\* a thread of the process panics while it holds the guard of m; dropping the
\* guard during the unwinding poisons the mutex
PanicHoldingGuard(m) ==
    /\ ~poisoned[m]
    /\ poisoned' = [poisoned EXCEPT ![m] = TRUE]
    /\ UNCHANGED <<queue, shutdown, workerPc, workerEnv, fs, wf, pc, call, chan, ret, ncalls,
                   enqLog, execLog, atShutdown, last, coord, marks, wfLock, markTimes, dropped, parked>>

PoisonNext ==
    \/ WorkflowNext
    \/ \E m \in Mutexes : PanicHoldingGuard(m)

PoisonSpec == WorkflowSpecInit /\ [][PoisonNext]_vars

\* C38: every lock acquisition goes on with the inner value of a poisoned
\* mutex: dispatch_blocking pushes its envelope whether or not the queue lock
\* is poisoned, and no call is answered with the error of a poisoned lock.
C38_PoisonedLockNeverFailsAnOperation ==
    /\ [][\A t \in Threads :
            (pc[t] = "enqueue" /\ pc'[t] = "recv")
            => queue' = push_back(queue, Envelope(call[t].event, ChannelOf(t)))]_vars
    /\ [](\A t \in Threads : Received(t) => ResponseOf(t) # Err("Other"))

=============================================================================
